---- MODULE Spec2Model ----
(***************************************************************************)
(* A model of the SuperDoc Python SDK runtime                              *)
(* (packages/sdk/langs/python/superdoc): the envelope decoder, the version *)
(* gate, the argument encoder and the invoke pipeline.                     *)
(*                                                                         *)
(* Python strings are sequences of pieces.  A piece is one character or an *)
(* atomic run of characters that the code never looks inside ("ok",        *)
(* "FILE_NOT_FOUND").  Concatenation is \o, so "--" + name is              *)
(* <<"--">> \o name, and every conversion (strip, splitlines, join,        *)
(* json.loads, json.dumps, str, int) is computed on the pieces.            *)
(***************************************************************************)
EXTENDS Integers, Sequences, FiniteSets, TLC

VARIABLES
    stdout,      \* _parse_envelope: the decoded standard output of the CLI
    stderr,      \* _parse_envelope: the decoded standard error of the CLI
    decoded,     \* _parse_envelope: what the call did (returned or raised)
    minVersion,  \* _ensure_cli_version_compatible: CONTRACT['cli']['minVersion']
    gateEnvelope, \* _ensure_cli_version_compatible: the envelope given to it
    gated,       \* _ensure_cli_version_compatible: what the call did
    encParams,   \* encoding loop: operation['params']
    encPayload,  \* encoding loop: the parameter map
    encArgs,     \* encoding loop: args, the tokens appended so far
    encNext,     \* encoding loop: the index of the next param spec
    encError,    \* encoding loop: the error raised, NotYet when none
    pc,          \* a call: where it stands
    entry,       \* a call: the function called (invoke or a dispatch function)
    client,      \* a call: the client or runtime it goes through
    callTool,    \* dispatch: tool_name
    callOperation, \* invoke: operation_id
    callParams,  \* invoke: params (dispatch: args)
    callPayload, \* invoke: payload, the map that is encoded
    timeoutMs,   \* invoke: timeout_ms
    cliBin,      \* the runtime: self._cli_bin
    requestedChangeMode, \* the runtime: the default_change_mode given to __init__
    defaultChangeMode, \* the runtime: self._default_change_mode
    activeMarker, \* the state directory: the text of the active-session file
    sessionMetadata, \* the state directory: the text of each metadata.json
    argv,        \* invoke: [command, *args] given to the process
    spawns,      \* the calls of subprocess.run / create_subprocess_exec made
    returncode,  \* the exit code of the process
    outcome,     \* a call: what it did (returned or raised)
    resolved,    \* _target_session_id: what the call did
    rejected,    \* _reject_python_collaboration: what the call did
    validated,   \* _validate_dispatch_args: what the call did
    chooserInput, \* choose_tools: input
    chosen,      \* choose_tools: what the call did
    policyAsset, \* the package: what tools-policy.json parses to, Missing without the file
    policyCache, \* tools_api: the global _policy_cache
    loaderPc,    \* _load_policy: where each caller stands
    loaded,      \* _load_policy: what _read_json_asset gave each caller
    obtained     \* _load_policy: what the call did, for each caller

envVars == <<stdout, stderr, decoded>>
verVars == <<minVersion, gateEnvelope, gated>>
encVars == <<encParams, encPayload, encArgs, encNext, encError>>
callVars ==
    <<entry, client, callTool, callParams, timeoutMs, cliBin, requestedChangeMode,
      defaultChangeMode, activeMarker, sessionMetadata>>
invVars == <<pc, callOperation, callPayload, argv, spawns, returncode, outcome>>
cacheVars == <<policyAsset, policyCache, loaderPc, loaded, obtained>>
selVars == <<chooserInput, chosen, cacheVars>>
polVars == <<resolved, rejected, validated, selVars>>

-----------------------------------------------------------------------------
(* Bounds of the model. *)

\* The lines one process run prints, on both streams together.
MaxLines == 3
\* The dot-separated components of a reported version.
MaxParts == 4
\* The params an operation declares.
MaxParams == 2

-----------------------------------------------------------------------------
(* Python values.  The tag is compared first, so values of different types *)
(* are different and are never compared payload against payload.           *)

PyNone == [t |-> "none", v |-> <<>>]
PyBool(b) == [t |-> "bool", v |-> b]
PyInt(n) == [t |-> "int", v |-> n]
PyStr(s) == [t |-> "str", v |-> s]
PyList(xs) == [t |-> "list", v |-> xs]
\* A dict is its items in insertion order, each <<key, value>>, keys unique.
PyDict(items) == [t |-> "dict", v |-> items]

\* A key of a dict is a string: the piece sequence of its name.
K(name) == <<name>>

IsDict(x) == x.t = "dict"
IsStr(x) == x.t = "str"
IsList(x) == x.t = "list"

HasKey(d, k) == \E i \in 1..Len(d.v) : d.v[i][1] = k

\* dict.get(k): the value, None when the key is missing.
DictGet(d, k) ==
    IF HasKey(d, k)
    THEN d.v[CHOOSE i \in 1..Len(d.v) : d.v[i][1] = k][2]
    ELSE PyNone

\* d[k] = x: an existing key keeps its position.
DictSet(d, k, x) ==
    IF HasKey(d, k)
    THEN PyDict([i \in 1..Len(d.v) |-> IF d.v[i][1] = k THEN <<k, x>> ELSE d.v[i]])
    ELSE PyDict(Append(d.v, <<k, x>>))

\* What a call did.  SuperDocError(message, code, details, exit_code) is the
\* error raised, with the details in val.
SuperDocError(message, code, details, exit_code) ==
    [kind |-> "raise", message |-> message, code |-> code, val |-> details,
     exit_code |-> exit_code]
\* raise SuperDocError(message, code=code, details=details), the message
\* given as its pieces.
Raise(message, code, details) ==
    SuperDocError(PyStr(message), PyStr(<<code>>), details, PyNone)
Return(x) ==
    [kind |-> "return", message |-> PyNone, code |-> PyNone, val |-> x,
     exit_code |-> PyNone]
NotYet ==
    [kind |-> "pending", message |-> PyNone, code |-> PyNone, val |-> PyNone,
     exit_code |-> PyNone]

-----------------------------------------------------------------------------
(* str.strip, str.splitlines, str.join. *)

WS == {" ", "\n"}

RECURSIVE LStrip(_)
LStrip(s) == IF s # <<>> /\ Head(s) \in WS THEN LStrip(Tail(s)) ELSE s

RECURSIVE RStrip(_)
RStrip(s) ==
    IF s # <<>> /\ s[Len(s)] \in WS THEN RStrip(SubSeq(s, 1, Len(s) - 1)) ELSE s

Strip(s) == RStrip(LStrip(s))

\* The least index of a newline at or after i, 0 when there is none.
RECURSIVE FindNewline(_, _)
FindNewline(s, i) ==
    IF i > Len(s) THEN 0 ELSE IF s[i] = "\n" THEN i ELSE FindNewline(s, i + 1)

RECURSIVE SplitLines(_)
SplitLines(s) ==
    IF s = <<>> THEN <<>>
    ELSE LET i == FindNewline(s, 1)
         IN  IF i = 0 THEN <<s>>
             ELSE <<SubSeq(s, 1, i - 1)>> \o SplitLines(SubSeq(s, i + 1, Len(s)))

RECURSIVE JoinLines(_)
JoinLines(lines) ==
    IF lines = <<>> THEN <<>>
    ELSE IF Len(lines) = 1 THEN lines[1]
    ELSE lines[1] \o <<"\n">> \o JoinLines(Tail(lines))

-----------------------------------------------------------------------------
(* json.loads on a piece sequence.  A parse step yields the value and the  *)
(* index after it, or fails.                                               *)

Digits == {"0", "1", "2", "3", "4", "5", "6", "7", "8", "9"}

DigitVal(c) ==
    CASE c = "0" -> 0 [] c = "1" -> 1 [] c = "2" -> 2 [] c = "3" -> 3
      [] c = "4" -> 4 [] c = "5" -> 5 [] c = "6" -> 6 [] c = "7" -> 7
      [] c = "8" -> 8 [] c = "9" -> 9

RECURSIVE DecimalValue(_)
DecimalValue(ds) ==
    IF ds = <<>> THEN 0
    ELSE 10 * DecimalValue(SubSeq(ds, 1, Len(ds) - 1)) + DigitVal(ds[Len(ds)])

ParseFail == [ok |-> FALSE, val |-> PyNone, next |-> 0]
Parsed(x, n) == [ok |-> TRUE, val |-> x, next |-> n]

RECURSIVE SkipWs(_, _)
SkipWs(s, i) == IF i <= Len(s) /\ s[i] \in WS THEN SkipWs(s, i + 1) ELSE i

\* The index after the last digit of the run of digits that starts at i.
RECURSIVE DigitsEnd(_, _)
DigitsEnd(s, i) == IF i <= Len(s) /\ s[i] \in Digits THEN DigitsEnd(s, i + 1) ELSE i

\* The index of the quote closing a string opened before i, 0 when the string
\* is not closed or holds a raw newline.
RECURSIVE StringEnd(_, _)
StringEnd(s, i) ==
    IF i > Len(s) \/ s[i] = "\n" THEN 0
    ELSE IF s[i] = "\"" THEN i
    ELSE StringEnd(s, i + 1)

ParseString(s, i) ==
    IF i > Len(s) \/ s[i] # "\"" THEN ParseFail
    ELSE LET j == StringEnd(s, i + 1)
         IN  IF j = 0 THEN ParseFail ELSE Parsed(PyStr(SubSeq(s, i + 1, j - 1)), j + 1)

ParseNumber(s, i) ==
    LET j == DigitsEnd(s, i)
    IN  IF j - i > 1 /\ s[i] = "0" THEN Parsed(PyInt(0), i + 1)
        ELSE Parsed(PyInt(DecimalValue(SubSeq(s, i, j - 1))), j)

RECURSIVE ParseValue(_, _)
RECURSIVE ParseMembers(_, _, _)
RECURSIVE ParseElements(_, _, _)

\* After a member: d the members so far, e the index of what follows.
MemberEnd(s, d, e) ==
    IF e > Len(s) THEN ParseFail
    ELSE IF s[e] = "}" THEN Parsed(d, e + 1)
    ELSE IF s[e] = "," THEN ParseMembers(s, e + 1, d)
    ELSE ParseFail

\* A member with the key k and the value x, each as parsed.
MemberValue(s, acc, k, x) ==
    IF ~x.ok THEN ParseFail
    ELSE MemberEnd(s, DictSet(acc, k.val.v, x.val), SkipWs(s, x.next))

\* A member with the key k as parsed, c the index of what follows it.
MemberKey(s, acc, k, c) ==
    IF ~k.ok \/ c > Len(s) THEN ParseFail
    ELSE IF s[c] # ":" THEN ParseFail
    ELSE MemberValue(s, acc, k, ParseValue(s, c + 1))

MemberFrom(s, acc, k) == MemberKey(s, acc, k, IF k.ok THEN SkipWs(s, k.next) ELSE 0)

\* After "{" or ",": one member, then "," and more members, or "}".
ParseMembers(s, i0, acc) == MemberFrom(s, acc, ParseString(s, SkipWs(s, i0)))

\* After an element: l the elements so far, e the index of what follows.
ElementEnd(s, l, e) ==
    IF e > Len(s) THEN ParseFail
    ELSE IF s[e] = "]" THEN Parsed(l, e + 1)
    ELSE IF s[e] = "," THEN ParseElements(s, e + 1, l)
    ELSE ParseFail

ElementValue(s, acc, x) ==
    IF ~x.ok THEN ParseFail
    ELSE ElementEnd(s, PyList(Append(acc.v, x.val)), SkipWs(s, x.next))

\* After "[" or ",": one element, then "," and more elements, or "]".
ParseElements(s, i0, acc) == ElementValue(s, acc, ParseValue(s, i0))

\* After "{" at i: j is the index of what follows the white space.
ObjectAt(s, i, j) ==
    IF j <= Len(s) /\ s[j] = "}" THEN Parsed(PyDict(<<>>), j + 1)
    ELSE ParseMembers(s, i + 1, PyDict(<<>>))

\* After "[" at i: j is the index of what follows the white space.
ArrayAt(s, i, j) ==
    IF j <= Len(s) /\ s[j] = "]" THEN Parsed(PyList(<<>>), j + 1)
    ELSE ParseElements(s, i + 1, PyList(<<>>))

\* The value that starts at i, which is no white space.
ValueAt(s, i) ==
    IF i > Len(s) THEN ParseFail
    ELSE IF s[i] = "true" THEN Parsed(PyBool(TRUE), i + 1)
    ELSE IF s[i] = "false" THEN Parsed(PyBool(FALSE), i + 1)
    ELSE IF s[i] = "null" THEN Parsed(PyNone, i + 1)
    ELSE IF s[i] \in Digits THEN ParseNumber(s, i)
    ELSE IF s[i] = "\"" THEN ParseString(s, i)
    ELSE IF s[i] = "{" THEN ObjectAt(s, i, SkipWs(s, i + 1))
    ELSE IF s[i] = "[" THEN ArrayAt(s, i, SkipWs(s, i + 1))
    ELSE ParseFail

ParseValue(s, i0) == ValueAt(s, SkipWs(s, i0))

\* r is the value parsed from the start of s: nothing but white space may
\* follow it.
WholeText(s, r) == IF r.ok /\ SkipWs(s, r.next) > Len(s) THEN r ELSE ParseFail

\* json.loads(s): the whole text is one value, white space around it allowed.
\* ok = FALSE stands for the exception json.loads raises.
JsonLoads(s) == WholeText(s, ParseValue(s, 1))

-----------------------------------------------------------------------------
(* runtime.py: the envelope decoder. *)

\* The candidates of lines[index..], for each line whose first character
\* is "{".
RECURSIVE LineCandidatesUnstripped(_, _)
LineCandidatesUnstripped(lines, index) ==
    IF index > Len(lines) THEN <<>>
    ELSE IF lines[index] # <<>> /\ Head(lines[index]) = "{"
    THEN <<Strip(JoinLines(SubSeq(lines, index, Len(lines))))>>
             \o LineCandidatesUnstripped(lines, index + 1)
    ELSE LineCandidatesUnstripped(lines, index + 1)

\* The candidates of lines[index..], for each line that starts with "{"
\* once it is stripped.
RECURSIVE LineCandidates(_, _)
LineCandidates(lines, index) ==
    IF index > Len(lines) THEN <<>>
    ELSE IF Strip(lines[index]) # <<>> /\ Head(Strip(lines[index])) = "{"
    THEN <<Strip(JoinLines(SubSeq(lines, index, Len(lines))))>>
             \o LineCandidates(lines, index + 1)
    ELSE LineCandidates(lines, index + 1)

\* The candidates of a text that is stripped.
CandidatesOf(stripped) ==
    IF stripped = <<>> THEN <<>>
    ELSE <<stripped>> \o LineCandidates(SplitLines(stripped), 1)

ExtractEnvelopeCandidates(text) == CandidatesOf(Strip(text))

\* Whether a candidate is taken: it parses to a dict that has the key "ok".
IsEnvelope(parsed) ==
    /\ parsed.ok
    /\ IsDict(parsed.val)
    /\ HasKey(parsed.val, K("ok"))

Acceptable(candidate) == candidate # <<>> /\ IsEnvelope(JsonLoads(candidate))

\* The first acceptable candidate parsed, None when there is none.
RECURSIVE TryParseCandidates(_)
TryParseCandidates(candidates) ==
    IF candidates = <<>> THEN PyNone
    ELSE IF Acceptable(Head(candidates)) THEN JsonLoads(Head(candidates)).val
    ELSE TryParseCandidates(Tail(candidates))

\* Details that hold the trimmed streams instead of the raw ones.
StreamDetailsTrimmed(out, err) ==
    PyDict(<< <<K("stdout"), PyStr(Strip(out))>>, <<K("stderr"), PyStr(Strip(err))>> >>)

StreamDetails(out, err) ==
    PyDict(<< <<K("stdout"), PyStr(out)>>, <<K("stderr"), PyStr(err)>> >>)

\* The end of _parse_envelope: the result of stdout if there is one, else
\* that of stderr, else the error.
FirstEnvelope(out, err, from_stdout, from_stderr) ==
    IF from_stdout # PyNone THEN Return(from_stdout)
    ELSE IF from_stderr # PyNone THEN Return(from_stderr)
    ELSE Raise(<<"CLI returned invalid JSON envelope.">>, "JSON_PARSE_ERROR",
               DictSet(StreamDetails(out, err), K("message"),
                       PyStr(<<"Failed to parse envelope JSON.">>)))

\* The decoder that reads `stdout or stderr`: stderr only when stdout is empty.
ParseEnvelopeFirstNonEmpty(out, err) ==
    IF Strip(out) = <<>> /\ Strip(err) = <<>>
    THEN Raise(<<"CLI returned no JSON envelope.">>, "COMMAND_FAILED",
               StreamDetails(out, err))
    ELSE FirstEnvelope(out, err,
                       TryParseCandidates(
                           ExtractEnvelopeCandidates(IF out # <<>> THEN out ELSE err)),
                       PyNone)

ParseEnvelope(out, err) ==
    IF Strip(out) = <<>> /\ Strip(err) = <<>>
    THEN Raise(<<"CLI returned no JSON envelope.">>, "COMMAND_FAILED",
               StreamDetails(out, err))
    ELSE FirstEnvelope(out, err,
                       TryParseCandidates(ExtractEnvelopeCandidates(out)),
                       TryParseCandidates(ExtractEnvelopeCandidates(err)))

-----------------------------------------------------------------------------
(* runtime.py: the version gate. *)

\* The least index of sep at or after i, 0 when there is none.
RECURSIVE Find(_, _, _)
Find(s, sep, i) ==
    IF i > Len(s) THEN 0 ELSE IF s[i] = sep THEN i ELSE Find(s, sep, i + 1)

\* str.split(sep): at least one part, empty parts kept.
RECURSIVE Split(_, _)
Split(s, sep) ==
    LET i == Find(s, sep, 1)
    IN  IF i = 0 THEN <<s>>
        ELSE <<SubSeq(s, 1, i - 1)>> \o Split(SubSeq(s, i + 1, Len(s)), sep)

\* str.split(sep, 1)[0]: the text before the first sep.
BeforeFirst(s, sep) ==
    IF Find(s, sep, 1) = 0 THEN s ELSE SubSeq(s, 1, Find(s, sep, 1) - 1)

\* int(text) succeeds: digits, white space around them allowed.  (The texts
\* of the model hold no sign and no underscore.)
IntOk(text) ==
    /\ Strip(text) # <<>>
    /\ \A i \in 1..Len(Strip(text)) : Strip(text)[i] \in Digits

IntOf(text) == DecimalValue(Strip(text))

NoVersion == <<>>

\* The parse that keeps the pre-release tag in the last component.
NormalizedVersionKeepsTag(version) ==
    IF ~IsStr(version) THEN NoVersion
    ELSE LET parts == Split(version.v, ".")
         IN  IF Len(parts) < 3 THEN NoVersion
             ELSE IF IntOk(parts[1]) /\ IntOk(parts[2]) /\ IntOk(parts[3])
             THEN <<IntOf(parts[1]), IntOf(parts[2]), IntOf(parts[3])>>
             ELSE NoVersion

\* None (here NoVersion) or the tuple (major, minor, patch).
NormalizedVersion(version) ==
    IF ~IsStr(version) THEN NoVersion
    ELSE LET core == BeforeFirst(version.v, "-")
             parts == Split(core, ".")
         IN  IF Len(parts) < 3 THEN NoVersion
             ELSE IF IntOk(parts[1]) /\ IntOk(parts[2]) /\ IntOk(parts[3])
             THEN <<IntOf(parts[1]), IntOf(parts[2]), IntOf(parts[3])>>
             ELSE NoVersion

\* Python's order of tuples of three integers.
TupleLess(a, b) ==
    \/ a[1] < b[1]
    \/ a[1] = b[1] /\ a[2] < b[2]
    \/ a[1] = b[1] /\ a[2] = b[2] /\ a[3] < b[3]

SentinelVersion == PyStr(<<"0", ".", "0", ".", "0">>)

\* The gate without the exemption of the development build 0.0.0.
EnsureCliVersionCompatibleNoSentinel(min_version, envelope) ==
    LET meta == DictGet(envelope, K("meta"))
        cli_version == DictGet(meta, K("version"))
        parsed_cli == NormalizedVersion(cli_version)
        parsed_min == NormalizedVersion(min_version)
    IN  IF ~IsStr(min_version) THEN Return(PyNone)
        ELSE IF ~IsDict(meta) THEN Return(PyNone)
        ELSE IF ~IsStr(cli_version) THEN Return(PyNone)
        ELSE IF parsed_cli = NoVersion \/ parsed_min = NoVersion THEN Return(PyNone)
        ELSE IF TupleLess(parsed_cli, parsed_min)
        THEN Raise(<<"CLI version ">> \o cli_version.v
                       \o <<" is older than minimum required ">>
                       \o min_version.v \o <<".">>,
                   "CLI_VERSION_UNSUPPORTED",
                   PyDict(<< <<K("cliVersion"), cli_version>>,
                             <<K("minVersion"), min_version>> >>))
        ELSE Return(PyNone)

\* _ensure_cli_version_compatible(envelope), with min_version the value of
\* CONTRACT['cli'].get('minVersion').
EnsureCliVersionCompatible(min_version, envelope) ==
    LET meta == DictGet(envelope, K("meta"))
        cli_version == DictGet(meta, K("version"))
        parsed_cli == NormalizedVersion(cli_version)
        parsed_min == NormalizedVersion(min_version)
    IN  IF ~IsStr(min_version) THEN Return(PyNone)
        ELSE IF ~IsDict(meta) THEN Return(PyNone)
        ELSE IF ~IsStr(cli_version) THEN Return(PyNone)
        ELSE IF cli_version = SentinelVersion THEN Return(PyNone)
        ELSE IF parsed_cli = NoVersion \/ parsed_min = NoVersion THEN Return(PyNone)
        ELSE IF TupleLess(parsed_cli, parsed_min)
        THEN Raise(<<"CLI version ">> \o cli_version.v
                       \o <<" is older than minimum required ">>
                       \o min_version.v \o <<".">>,
                   "CLI_VERSION_UNSUPPORTED",
                   PyDict(<< <<K("cliVersion"), cli_version>>,
                             <<K("minVersion"), min_version>> >>))
        ELSE Return(PyNone)

-----------------------------------------------------------------------------
(* str(value) and json.dumps(value).  The texts of the model hold no quote *)
(* and no backslash, so nothing is escaped.                                *)

DigitOf(n) ==
    CASE n = 0 -> "0" [] n = 1 -> "1" [] n = 2 -> "2" [] n = 3 -> "3"
      [] n = 4 -> "4" [] n = 5 -> "5" [] n = 6 -> "6" [] n = 7 -> "7"
      [] n = 8 -> "8" [] n = 9 -> "9"

\* str(n) of an int that is not negative.
RECURSIVE ToDecimal(_)
ToDecimal(n) ==
    IF n < 10 THEN <<DigitOf(n)>> ELSE ToDecimal(n \div 10) \o <<DigitOf(n % 10)>>

RECURSIVE PyRepr(_)
RECURSIVE ReprItems(_, _)
RECURSIVE ReprPairs(_, _)

\* repr of the elements of a list from index i on, ", " between them.
ReprItems(xs, i) ==
    IF i > Len(xs) THEN <<>>
    ELSE (IF i > 1 THEN <<",", " ">> ELSE <<>>) \o PyRepr(xs[i]) \o ReprItems(xs, i + 1)

\* repr of the items of a dict from index i on.
ReprPairs(items, i) ==
    IF i > Len(items) THEN <<>>
    ELSE (IF i > 1 THEN <<",", " ">> ELSE <<>>)
             \o <<"'">> \o items[i][1] \o <<"'", ":", " ">> \o PyRepr(items[i][2])
             \o ReprPairs(items, i + 1)

PyRepr(x) ==
    CASE x.t = "none" -> <<"None">>
      [] x.t = "bool" -> IF x.v THEN <<"True">> ELSE <<"False">>
      [] x.t = "int" -> ToDecimal(x.v)
      [] x.t = "str" -> <<"'">> \o x.v \o <<"'">>
      [] x.t = "list" -> <<"[">> \o ReprItems(x.v, 1) \o <<"]">>
      [] x.t = "dict" -> <<"{">> \o ReprPairs(x.v, 1) \o <<"}">>

\* str(x): a str is itself, anything else its repr.
StrOf(x) == IF x.t = "str" THEN x.v ELSE PyRepr(x)

RECURSIVE JsonDumps(_)
RECURSIVE DumpItems(_, _)
RECURSIVE DumpPairs(_, _)

DumpItems(xs, i) ==
    IF i > Len(xs) THEN <<>>
    ELSE (IF i > 1 THEN <<",", " ">> ELSE <<>>) \o JsonDumps(xs[i]) \o DumpItems(xs, i + 1)

DumpPairs(items, i) ==
    IF i > Len(items) THEN <<>>
    ELSE (IF i > 1 THEN <<",", " ">> ELSE <<>>)
             \o <<"\"">> \o items[i][1] \o <<"\"", ":", " ">> \o JsonDumps(items[i][2])
             \o DumpPairs(items, i + 1)

JsonDumps(x) ==
    CASE x.t = "none" -> <<"null">>
      [] x.t = "bool" -> IF x.v THEN <<"true">> ELSE <<"false">>
      [] x.t = "int" -> ToDecimal(x.v)
      [] x.t = "str" -> <<"\"">> \o x.v \o <<"\"">>
      [] x.t = "list" -> <<"[">> \o DumpItems(x.v, 1) \o <<"]">>
      [] x.t = "dict" -> <<"{">> \o DumpPairs(x.v, 1) \o <<"}">>

\* bool(x), the truth value of a Python value.
Truthy(x) ==
    CASE x.t = "none" -> FALSE
      [] x.t = "bool" -> x.v
      [] x.t = "int" -> x.v # 0
      [] OTHER -> x.v # <<>>

-----------------------------------------------------------------------------
(* runtime.py: the argument encoder.  A param spec is a record             *)
(* [name, kind, type, required, flag]; flag = <<>> when no override is     *)
(* declared.  A token is a text, args a sequence of tokens.                *)

Encoded(args) == [args |-> args, error |-> NotYet]
\* raise SuperDocError(..., code='INVALID_ARGUMENT'), no details.
EncodeError(args, message) ==
    [args |-> args, error |-> Raise(message, "INVALID_ARGUMENT", PyNone)]
MissingRequired(spec) == <<"Missing required parameter: ", spec.name>>
MustBeList(spec) == <<"Parameter ", spec.name, " must be a list.">>

\* The flag that ignores a declared override.
FlagTokenNameOnly(spec) == <<"--", spec.name>>

FlagToken(spec) == <<"--">> \o (IF spec.flag # <<>> THEN spec.flag ELSE <<spec.name>>)

\* args.extend([flag, str(item)]) for every item of the list.
RECURSIVE ExtendWithItems(_, _, _)
ExtendWithItems(args, flag, items) ==
    IF items = <<>> THEN args
    ELSE ExtendWithItems(args \o <<flag, StrOf(Head(items))>>, flag, Tail(items))

\* The encoder that gives a boolean as a bare presence flag.
EncodeParamBarePresence(args, spec, value) ==
    IF value = PyNone
    THEN IF spec.required THEN EncodeError(args, MissingRequired(spec)) ELSE Encoded(args)
    ELSE IF spec.kind = "doc" THEN Encoded(Append(args, StrOf(value)))
    ELSE IF spec.type = "boolean"
    THEN Encoded(IF Truthy(value) THEN Append(args, FlagToken(spec)) ELSE args)
    ELSE IF spec.type = "string[]"
    THEN IF ~IsList(value)
         THEN EncodeError(args, MustBeList(spec))
         ELSE Encoded(ExtendWithItems(args, FlagToken(spec), value.v))
    ELSE IF spec.type = "json"
    THEN Encoded(args \o <<FlagToken(spec), JsonDumps(value)>>)
    ELSE Encoded(args \o <<FlagToken(spec), StrOf(value)>>)

\* The encoder that skips an absent param, required or not.
EncodeParamSkipsRequired(args, spec, value) ==
    IF value = PyNone THEN Encoded(args)
    ELSE IF spec.kind = "doc" THEN Encoded(Append(args, StrOf(value)))
    ELSE IF spec.type = "boolean"
    THEN Encoded(args \o <<FlagToken(spec),
                            IF Truthy(value) THEN <<"true">> ELSE <<"false">> >>)
    ELSE IF spec.type = "string[]"
    THEN IF ~IsList(value)
         THEN EncodeError(args, MustBeList(spec))
         ELSE Encoded(ExtendWithItems(args, FlagToken(spec), value.v))
    ELSE IF spec.type = "json"
    THEN Encoded(args \o <<FlagToken(spec), JsonDumps(value)>>)
    ELSE Encoded(args \o <<FlagToken(spec), StrOf(value)>>)

\* _encode_param(args, spec, value): args afterwards, and the error raised.
EncodeParam(args, spec, value) ==
    IF value = PyNone
    THEN IF spec.required
         THEN EncodeError(args, MissingRequired(spec))
         ELSE Encoded(args)
    ELSE IF spec.kind = "doc" THEN Encoded(Append(args, StrOf(value)))
    ELSE IF spec.type = "boolean"
    THEN Encoded(args \o <<FlagToken(spec),
                            IF Truthy(value) THEN <<"true">> ELSE <<"false">> >>)
    ELSE IF spec.type = "string[]"
    THEN IF ~IsList(value)
         THEN EncodeError(args, MustBeList(spec))
         ELSE Encoded(ExtendWithItems(args, FlagToken(spec), value.v))
    ELSE IF spec.type = "json"
    THEN Encoded(args \o <<FlagToken(spec), JsonDumps(value)>>)
    ELSE Encoded(args \o <<FlagToken(spec), StrOf(value)>>)

\* for spec in operation['params']: _encode_param(args, spec, payload.get(name)),
\* from the param at index i on; the loop ends at the first error.
RECURSIVE EncodeParams(_, _, _, _)
EncodeParams(args, params, payload, i) ==
    IF i > Len(params) THEN Encoded(args)
    ELSE LET one == EncodeParam(args, params[i], DictGet(payload, K(params[i].name)))
         IN  IF one.error # NotYet THEN one
             ELSE EncodeParams(one.args, params, payload, i + 1)

-----------------------------------------------------------------------------
(* The decoder applied to the output of one process run.  The two streams  *)
(* are built from lines a CLI run can print.                               *)

Q == "\""

NoiseLine == <<"Telemetry: initialized in 42ms">>
BlankLine == <<>>
ScalarLine == <<"1">>
EnvTrueLine == <<"{", Q, "ok", Q, ":", "true", "}">>
EnvFalseLine ==
    <<"{", Q, "ok", Q, ":", "false", ",", Q, "error", Q, ":",
      "{", Q, "code", Q, ":", Q, "FILE_NOT_FOUND", Q, "}", "}">>
IndentedEnvLine == <<" ", "{", Q, "ok", Q, ":", "false", "}">>
NoOkLine == <<"{", Q, "data", Q, ":", "1", "}">>
\* An envelope cut after "data": alone it is truncated JSON, followed by
\* CloseLine it is an envelope printed on two lines.
OpenLine == <<"{", Q, "ok", Q, ":", "true", ",", Q, "data", Q, ":">>
CloseLine == <<"1", "}">>

LineVocabulary ==
    {NoiseLine, BlankLine, ScalarLine, EnvTrueLine, EnvFalseLine, IndentedEnvLine,
     NoOkLine, OpenLine, CloseLine}

LineSeqs(n) == [1..n -> LineVocabulary]

EnvelopeIdle == stdout = <<>> /\ stderr = <<>> /\ decoded = NotYet
VersionIdle == minVersion = PyNone /\ gateEnvelope = PyNone /\ gated = NotYet
EncodeIdle ==
    /\ encParams = <<>>
    /\ encPayload = PyNone
    /\ encArgs = <<>>
    /\ encNext = 0
    /\ encError = NotYet
\* The session resolver, the guard and the validator are not called.
\* No caller is in _load_policy.
CacheIdle ==
    /\ policyAsset = PyNone
    /\ policyCache = PyNone
    /\ loaderPc = <<>>
    /\ loaded = <<>>
    /\ obtained = <<>>
ChooserIdle == chooserInput = PyNone /\ chosen = NotYet /\ CacheIdle
PolicyIdle ==
    resolved = NotYet /\ rejected = NotYet /\ validated = NotYet /\ ChooserIdle
\* No call is made.
InvokeIdle ==
    /\ pc = "idle"
    /\ entry = "none"
    /\ client = "none"
    /\ callTool = <<>>
    /\ callOperation = PyNone
    /\ callParams = PyNone
    /\ callPayload = PyNone
    /\ timeoutMs = PyNone
    /\ cliBin = <<>>
    /\ requestedChangeMode = PyNone
    /\ defaultChangeMode = PyNone
    /\ activeMarker = PyNone
    /\ sessionMetadata = <<>>
    /\ argv = <<>>
    /\ spawns = 0
    /\ returncode = PyNone
    /\ outcome = NotYet

InitEnvelope ==
    /\ VersionIdle
    /\ EncodeIdle
    /\ InvokeIdle
    /\ PolicyIdle
    /\ \E n \in 0..MaxLines, m \in 0..MaxLines :
          /\ n + m <= MaxLines
          /\ stdout \in {JoinLines(ls) : ls \in LineSeqs(n)}
          /\ stderr \in {JoinLines(ls) : ls \in LineSeqs(m)}
    /\ decoded = NotYet

DecodeEnvelope ==
    /\ decoded = NotYet
    /\ decoded' = ParseEnvelope(stdout, stderr)
    /\ UNCHANGED <<polVars, stdout, stderr, verVars, encVars, callVars, invVars>>

NextEnvelope == DecodeEnvelope

vars == <<envVars, verVars, encVars, callVars, invVars, polVars>>

SpecEnvelope == InitEnvelope /\ [][NextEnvelope]_vars

-----------------------------------------------------------------------------
(* The version gate applied to an envelope.  A reported version is some    *)
(* components joined by dots, with or without a pre-release tag.           *)

Components == {<<"0">>, <<"1">>, <<"9">>, <<"1", "0">>, <<"x">>}
Suffixes == {<<>>, <<"-", "rc", ".", "1">>}

RECURSIVE JoinDots(_)
JoinDots(parts) ==
    IF Len(parts) = 1 THEN parts[1]
    ELSE parts[1] \o <<".">> \o JoinDots(Tail(parts))

ReportedVersions ==
    {JoinDots(ps) \o sfx :
        ps \in UNION {[1..n -> Components] : n \in 1..MaxParts}, sfx \in Suffixes}

\* meta: missing, not a dict, a dict without version, with a version that is
\* not a string, with a version string.
Envelopes ==
    {PyDict(<< <<K("ok"), PyBool(TRUE)>> >>)}
    \cup {PyDict(<< <<K("ok"), PyBool(TRUE)>>, <<K("meta"), m>> >>) :
            m \in {PyStr(<<"1", ".", "0", ".", "0">>), PyDict(<<>>),
                   PyDict(<< <<K("version"), PyInt(1)>> >>)}}
    \cup {PyDict(<< <<K("ok"), PyBool(TRUE)>>,
                    <<K("meta"), PyDict(<< <<K("version"), PyStr(v)>> >>)>> >>) :
            v \in ReportedVersions}

MinVersions ==
    {PyNone,
     PyStr(<<"1", ".", "0", ".", "0">>),
     PyStr(<<"1", ".", "9", ".", "0">>),
     PyStr(<<"1", ".", "1", "0", ".", "0", "-", "rc", ".", "1">>),
     PyStr(<<"0", ".", "0", ".", "0">>),
     PyStr(<<"1", ".", "0">>),
     PyStr(<<"1", ".", "x", ".", "0">>)}

InitVersion ==
    /\ EnvelopeIdle
    /\ EncodeIdle
    /\ InvokeIdle
    /\ PolicyIdle
    /\ minVersion \in MinVersions
    /\ gateEnvelope \in Envelopes
    /\ gated = NotYet

CheckVersion ==
    /\ gateEnvelope # PyNone
    /\ gated = NotYet
    /\ gated' = EnsureCliVersionCompatible(minVersion, gateEnvelope)
    /\ UNCHANGED <<polVars, minVersion, gateEnvelope, envVars, encVars, callVars, invVars>>

NextVersion == CheckVersion

SpecVersion == InitVersion /\ [][NextVersion]_vars

-----------------------------------------------------------------------------
(* The encoder applied to the params of an operation, one param a step.    *)

DocParam ==
    [name |-> "doc", kind |-> "doc", type |-> "string", required |-> FALSE, flag |-> <<>>]
SessionParam ==
    [name |-> "sessionId", kind |-> "flag", type |-> "string", required |-> FALSE,
     flag |-> <<"session">>]
ForceParam ==
    [name |-> "force", kind |-> "flag", type |-> "boolean", required |-> FALSE,
     flag |-> <<>>]
IdsParam ==
    [name |-> "ids", kind |-> "flag", type |-> "string[]", required |-> FALSE,
     flag |-> <<"id">>]
QueryParam ==
    [name |-> "query", kind |-> "flag", type |-> "json", required |-> TRUE, flag |-> <<>>]
LimitParam ==
    [name |-> "limit", kind |-> "flag", type |-> "number", required |-> FALSE,
     flag |-> <<>>]

ParamSpecs == {DocParam, SessionParam, ForceParam, IdsParam, QueryParam, LimitParam}

\* The param lists of at most n params, no name declared twice.
ParamLists(n) ==
    {ps \in UNION {[1..k -> ParamSpecs] : k \in 0..n} :
        \A i, j \in 1..Len(ps) : i # j => ps[i].name # ps[j].name}

\* No entry for the param in the map.
Missing == [t |-> "missing", v |-> <<>>]

\* What a caller can give for a param: nothing, null, values of its type,
\* and for a string[] param a value that is no list.
ChoicesFor(spec) ==
    {Missing} \cup
    CASE spec.name = "doc" -> {PyStr(<<"a.docx">>), PyStr(<<"--", "force">>)}
      [] spec.name = "sessionId" -> {PyNone, PyStr(<<"s1">>)}
      [] spec.name = "force" -> {PyBool(TRUE), PyBool(FALSE)}
      [] spec.name = "ids" ->
            {PyList(<<>>), PyList(<<PyStr(<<"a">>), PyStr(<<"b">>)>>), PyStr(<<"a">>)}
      [] spec.name = "query" ->
            {PyNone, PyDict(<< <<K("bold"), PyBool(TRUE)>>, <<K("size"), PyInt(12)>> >>),
             PyList(<<PyStr(<<"a">>)>>)}
      [] spec.name = "limit" -> {PyInt(1), PyInt(10)}

AllChoices == UNION {ChoicesFor(spec) : spec \in ParamSpecs}

\* The map that gives choice[i] for the i-th param, from index i on.
RECURSIVE PayloadOf(_, _, _)
PayloadOf(params, choice, i) ==
    IF i > Len(params) THEN PyDict(<<>>)
    ELSE LET rest == PayloadOf(params, choice, i + 1)
         IN  IF choice[i] = Missing THEN rest
             ELSE PyDict(<< <<K(params[i].name), choice[i]>> >> \o rest.v)

Payloads(params) ==
    {PayloadOf(params, choice, 1) :
        choice \in {c \in [1..Len(params) -> AllChoices] :
                       \A i \in 1..Len(params) : c[i] \in ChoicesFor(params[i])}}

InitEncode ==
    /\ EnvelopeIdle
    /\ VersionIdle
    /\ InvokeIdle
    /\ PolicyIdle
    /\ encParams \in ParamLists(MaxParams)
    /\ encPayload \in Payloads(encParams)
    /\ encArgs = <<>>
    /\ encNext = 1
    /\ encError = NotYet

\* One iteration of the loop over operation['params'].
EncodeStep ==
    /\ encNext \in 1..Len(encParams)
    /\ encError = NotYet
    /\ LET one == EncodeParam(encArgs, encParams[encNext],
                               DictGet(encPayload, K(encParams[encNext].name)))
       IN  /\ encArgs' = one.args
           /\ encError' = one.error
    /\ encNext' = encNext + 1
    /\ UNCHANGED <<polVars, encParams, encPayload, envVars, verVars, callVars, invVars>>

NextEncode == EncodeStep

SpecEncode == InitEncode /\ [][NextEncode]_vars

-----------------------------------------------------------------------------
(* The contract and the tool name map.  superdoc/generated/contract.py and *)
(* the tools assets are generated at build time; the index below follows   *)
(* the OperationSpec of the specification: an identifier, ordered command  *)
(* tokens, ordered params, optional constraints.                           *)

DocOpen == <<"doc", ".", "open">>
DocSessionClose == <<"doc", ".", "session", ".", "close">>
DocFormatApply == <<"doc", ".", "format", ".", "apply">>
DocFind == <<"doc", ".", "find">>
\* An identifier the index does not hold.
DocCommentsAdd == <<"doc", ".", "comments", ".", "add">>
DocMissing == <<"doc", ".", "missing">>

CollabUrlParam ==
    [name |-> "collabUrl", kind |-> "flag", type |-> "string", required |-> FALSE,
     flag |-> <<"collab-url">>]
TargetParam ==
    [name |-> "target", kind |-> "flag", type |-> "json", required |-> TRUE,
     flag |-> <<>>]
InlineParam ==
    [name |-> "inline", kind |-> "flag", type |-> "json", required |-> TRUE,
     flag |-> <<>>]
ChangeModeParam ==
    [name |-> "changeMode", kind |-> "flag", type |-> "string", required |-> FALSE,
     flag |-> <<"change-mode">>]

TextParam ==
    [name |-> "text", kind |-> "flag", type |-> "string", required |-> FALSE,
     flag |-> <<>>]
BlockIdsParam ==
    [name |-> "blockIds", kind |-> "flag", type |-> "string[]", required |-> TRUE,
     flag |-> <<"block-id">>]
ModeParam ==
    [name |-> "mode", kind |-> "flag", type |-> "string", required |-> FALSE,
     flag |-> <<>>]

\* A group of a constraint, and a requiredWhen rule with its condition.
Group(names) == PyList([i \in 1..Len(names) |-> PyStr(K(names[i]))])
Rule(param, when_param, condition) ==
    PyDict(<< <<K("param"), PyStr(K(param))>>, <<K("whenParam"), PyStr(K(when_param))>> >>
           \o condition)

\* The constraints of doc.comments.add: one of doc and sessionId and not
\* both, one of text and mode, text when mode is reply, mode when doc is
\* absent, text when blockIds is present.
CommentsAddConstraints ==
    PyDict(<< <<K("mutuallyExclusive"), PyList(<<Group(<<"doc", "sessionId">>)>>)>>,
              <<K("requiresOneOf"),
                PyList(<<Group(<<"doc", "sessionId">>), Group(<<"text", "mode">>)>>)>>,
              <<K("requiredWhen"),
                PyList(<<Rule("text", "mode", << <<K("equals"), PyStr(<<"reply">>)>> >>),
                         Rule("mode", "doc", << <<K("present"), PyBool(FALSE)>> >>),
                         Rule("text", "blockIds", <<>>)>>)>> >>)

OperationIds == {DocOpen, DocSessionClose, DocFormatApply, DocFind, DocCommentsAdd}

\* CONTRACT['operations'] and OPERATION_INDEX.  Every operation declares its
\* doc param first; doc.find declares doc and sessionId as mutually exclusive.
OPERATION_INDEX ==
    [id \in OperationIds |->
        CASE id = DocOpen ->
               [commandTokens |-> << <<"open">> >>,
                params |-> <<DocParam, SessionParam, CollabUrlParam>>,
                constraints |-> PyNone]
          [] id = DocSessionClose ->
               [commandTokens |-> << <<"session">>, <<"close">> >>,
                params |-> <<SessionParam>>,
                constraints |-> PyNone]
          [] id = DocFormatApply ->
               [commandTokens |-> << <<"format">>, <<"apply">> >>,
                params |-> <<DocParam, SessionParam, TargetParam, InlineParam,
                             ChangeModeParam>>,
                constraints |-> PyNone]
          [] id = DocFind ->
               [commandTokens |-> << <<"find">> >>,
                params |-> <<DocParam, SessionParam, QueryParam, IdsParam>>,
                constraints |->
                    PyDict(<< <<K("mutuallyExclusive"),
                                PyList(<<PyList(<<PyStr(K("doc")),
                                                  PyStr(K("sessionId"))>>)>>)>> >>)]
          [] id = DocCommentsAdd ->
               [commandTokens |-> << <<"comments">>, <<"add">> >>,
                params |-> <<DocParam, SessionParam, BlockIdsParam, TextParam,
                             ModeParam>>,
                constraints |-> CommentsAddConstraints]]

\* CONTRACT['cli']['minVersion'].
ContractMinVersion == PyStr(<<"1", ".", "0", ".", "0">>)

\* tools/tool-name-map.json: the operation of each tool name.
ToolNames ==
    {<<"open_document">>, <<"close_session">>, <<"apply_format">>, <<"find">>,
     <<"add_comment">>}
ToolNameMap ==
    [name \in ToolNames |->
        CASE name = <<"open_document">> -> DocOpen
          [] name = <<"close_session">> -> DocSessionClose
          [] name = <<"apply_format">> -> DocFormatApply
          [] name = <<"find">> -> DocFind
          [] name = <<"add_comment">> -> DocCommentsAdd]

\* resolve_tool_operation(tool_name).
ResolveToolOperation(tool_name) ==
    IF tool_name \in ToolNames THEN PyStr(ToolNameMap[tool_name]) ELSE PyNone

-----------------------------------------------------------------------------
(* tools_api.py: the validation of the arguments of a dispatched tool.     *)

Min(S) == CHOOSE x \in S : \A y \in S : x <= y

\* ", ".join(group)
RECURSIVE JoinComma(_)
JoinComma(names) ==
    IF names = <<>> THEN <<>>
    ELSE IF Len(names) = 1 THEN names[1].v
    ELSE names[1].v \o <<", ">> \o JoinComma(Tail(names))

IsPresent(val) ==
    IF val = PyNone THEN FALSE
    ELSE IF IsList(val) THEN Len(val.v) > 0
    ELSE TRUE

\* constraints.get(key) if it is a list, else [].
ConstraintList(constraints, key) ==
    IF IsList(DictGet(constraints, K(key))) THEN DictGet(constraints, K(key)).v
    ELSE <<>>

\* The members of the group that are present in args.
PresentMembers(group, args) ==
    {i \in 1..Len(group.v) : IsPresent(DictGet(args, group.v[i].v))}

\* A should_require that reads every rule as one that asks for its trigger to
\* be present.
ShouldRequirePresenceOnly(rule, args) ==
    IsStr(DictGet(rule, K("whenParam")))
        /\ IsPresent(DictGet(args, DictGet(rule, K("whenParam")).v))

\* should_require of a requiredWhen rule.
ShouldRequire(rule, args) ==
    LET when_param == DictGet(rule, K("whenParam"))
        when_value == IF IsStr(when_param) THEN DictGet(args, when_param.v)
                      ELSE PyNone
    IN  IF HasKey(rule, K("equals")) THEN when_value = DictGet(rule, K("equals"))
        ELSE IF HasKey(rule, K("present"))
        THEN IF DictGet(rule, K("present")) = PyBool(TRUE)
             THEN IsPresent(when_value)
             ELSE ~IsPresent(when_value)
        ELSE IsPresent(when_value)

RuleViolated(rule, args) ==
    /\ IsDict(rule)
    /\ ShouldRequire(rule, args)
    /\ IsStr(DictGet(rule, K("param")))
    /\ ~IsPresent(DictGet(args, DictGet(rule, K("param")).v))

OperationDetails(operation_id, key, x) ==
    PyDict(<< <<K("operationId"), PyStr(operation_id)>>, <<K(key), x>> >>)

\* A constraint validation that accepts every argument map.
ValidateConstraintsGroupsIgnored(operation_id, constraints, args) == Return(PyNone)

\* The constraint validation, from the mutually exclusive groups on.
ValidateConstraints(operation_id, constraints, args) ==
    LET mutually_exclusive == ConstraintList(constraints, "mutuallyExclusive")
        requires_one_of == ConstraintList(constraints, "requiresOneOf")
        required_when == ConstraintList(constraints, "requiredWhen")
        clash == {g \in 1..Len(mutually_exclusive) :
                     /\ IsList(mutually_exclusive[g])
                     /\ Cardinality(PresentMembers(mutually_exclusive[g], args)) > 1}
        none == {g \in 1..Len(requires_one_of) :
                     /\ IsList(requires_one_of[g])
                     /\ PresentMembers(requires_one_of[g], args) = {}}
        broken == {r \in 1..Len(required_when) : RuleViolated(required_when[r], args)}
    IN  IF clash # {}
        THEN Raise(<<"Arguments are mutually exclusive for ">> \o operation_id
                       \o <<": ">> \o JoinComma(mutually_exclusive[Min(clash)].v),
                   "INVALID_ARGUMENT",
                   OperationDetails(operation_id, "group", mutually_exclusive[Min(clash)]))
        ELSE IF none # {}
        THEN Raise(<<"One of the following arguments is required for ">>
                       \o operation_id \o <<": ">>
                       \o JoinComma(requires_one_of[Min(none)].v),
                   "INVALID_ARGUMENT",
                   OperationDetails(operation_id, "group", requires_one_of[Min(none)]))
        ELSE IF broken # {}
        THEN Raise(<<"Argument ">> \o DictGet(required_when[Min(broken)], K("param")).v
                       \o <<" is required by constraints for ">> \o operation_id
                       \o <<".">>,
                   "INVALID_ARGUMENT",
                   OperationDetails(operation_id, "rule", required_when[Min(broken)]))
        ELSE Return(PyNone)

\* A validation that looks at no key of the argument map beyond the declared
\* ones.
ValidateDispatchArgsKeysIgnored(operation_id, args) ==
    IF operation_id \notin OperationIds
    THEN Raise(<<"Unknown operation id.">>, "INVALID_ARGUMENT",
               PyDict(<< <<K("operationId"), PyStr(operation_id)>> >>))
    ELSE
    LET operation == OPERATION_INDEX[operation_id]
        params == operation.params
        missing == {i \in 1..Len(params) :
                       params[i].required /\ DictGet(args, K(params[i].name)) = PyNone}
    IN  IF missing # {}
        THEN Raise(<<"Missing required parameter ", params[Min(missing)].name>>
                       \o <<" for ">> \o operation_id \o <<".">>,
                   "INVALID_ARGUMENT",
                   OperationDetails(operation_id, "param",
                                    PyStr(K(params[Min(missing)].name))))
        ELSE IF ~IsDict(operation.constraints) THEN Return(PyNone)
        ELSE ValidateConstraints(operation_id, operation.constraints, args)

\* _validate_dispatch_args(operation_id, args).  The params of an operation
\* of the index are a list of dicts with a string name.
ValidateDispatchArgs(operation_id, args) ==
    IF operation_id \notin OperationIds
    THEN Raise(<<"Unknown operation id.">>, "INVALID_ARGUMENT",
               PyDict(<< <<K("operationId"), PyStr(operation_id)>> >>))
    ELSE
    LET operation == OPERATION_INDEX[operation_id]
        params == operation.params
        allowed == {K(params[i].name) : i \in 1..Len(params)}
        unexpected == {i \in 1..Len(args.v) : args.v[i][1] \notin allowed}
        missing == {i \in 1..Len(params) :
                       params[i].required /\ DictGet(args, K(params[i].name)) = PyNone}
    IN  IF unexpected # {}
        THEN Raise(<<"Unexpected parameter ">> \o args.v[Min(unexpected)][1]
                       \o <<" for ">> \o operation_id \o <<".">>,
                   "INVALID_ARGUMENT",
                   OperationDetails(operation_id, "param",
                                    PyStr(args.v[Min(unexpected)][1])))
        ELSE IF missing # {}
        THEN Raise(<<"Missing required parameter ", params[Min(missing)].name>>
                       \o <<" for ">> \o operation_id \o <<".">>,
                   "INVALID_ARGUMENT",
                   OperationDetails(operation_id, "param",
                                    PyStr(K(params[Min(missing)].name))))
        ELSE IF ~IsDict(operation.constraints) THEN Return(PyNone)
        ELSE ValidateConstraints(operation_id, operation.constraints, args)

\* _resolve_doc_method(client, operation_id).  A generated client has a
\* callable member for every operation of the contract; any other object
\* here has no doc attribute.
ResolveDocMethod(client_kind, operation_id) ==
    IF client_kind \notin {"sync", "async"}
    THEN Raise(<<"Client has no doc API.">>, "TOOL_DISPATCH_NOT_FOUND",
               PyDict(<< <<K("operationId"), PyStr(operation_id)>> >>))
    ELSE Return(PyNone)

\* `args or {}`.
OrEmptyDict(x) == IF Truthy(x) THEN x ELSE PyDict(<<>>)

\* dispatch_superdoc_tool / dispatch_superdoc_tool_async up to the call of
\* the method: the error raised, or Return(None) when the method is called.
DispatchChecks(is_async, client_kind, tool_name, args) ==
    LET operation_id == ResolveToolOperation(tool_name)
        payload == OrEmptyDict(args)
        checked == ValidateDispatchArgs(operation_id.v, payload)
        method == ResolveDocMethod(client_kind, operation_id.v)
    IN  IF operation_id = PyNone
        THEN Raise(<<"Unknown SuperDoc tool.">>, "TOOL_NOT_FOUND",
                   PyDict(<< <<K("toolName"), PyStr(tool_name)>> >>))
        ELSE IF ~IsDict(payload)
        THEN Raise(<<"Tool arguments must be an object.">>, "INVALID_ARGUMENT",
                   PyDict(<< <<K("toolName"), PyStr(tool_name)>> >>))
        ELSE IF checked.kind = "raise" THEN checked
        ELSE IF method.kind = "raise" THEN method
        ELSE IF ~is_async /\ client_kind = "async"
        THEN Raise(<<"dispatch_superdoc_tool cannot call async methods. ",
                     "Use dispatch_superdoc_tool_async.">>,
                   "INVALID_ARGUMENT",
                   PyDict(<< <<K("toolName"), PyStr(tool_name)>>,
                             <<K("operationId"), operation_id>> >>))
        ELSE Return(PyNone)

-----------------------------------------------------------------------------
(* runtime.py: the command line, the default change mode and the           *)
(* collaboration guard.                                                    *)

\* str.lower() on the pieces of a path.
LowerPiece(p) ==
    CASE p = ".JS" -> ".js"
      [] p = ".TS" -> ".ts"
      [] OTHER -> p
Lower(s) == [i \in 1..Len(s) |-> LowerPiece(s[i])]

\* str.endswith(suffix), the suffix being one piece.
EndsWith(s, suffix) == s # <<>> /\ s[Len(s)] = suffix

\* _resolve_invocation(cli_bin)
ResolveInvocation(cli_bin) ==
    IF EndsWith(Lower(cli_bin), ".js")
    THEN [command |-> <<"node">>, prefix |-> <<cli_bin>>]
    ELSE IF EndsWith(Lower(cli_bin), ".ts")
    THEN [command |-> <<"bun">>, prefix |-> <<cli_bin>>]
    ELSE [command |-> cli_bin, prefix |-> <<>>]

\* _normalize_default_change_mode(default_change_mode)
NormalizeDefaultChangeMode(default_change_mode) ==
    IF default_change_mode = PyNone THEN Return(PyNone)
    ELSE IF default_change_mode \in {PyStr(<<"direct">>), PyStr(<<"tracked">>)}
    THEN Return(default_change_mode)
    ELSE Raise(<<"default_change_mode must be ", Q, "direct", Q, " or ", Q, "tracked", Q,
                 ".">>,
               "INVALID_ARGUMENT",
               PyDict(<< <<K("defaultChangeMode"), default_change_mode>> >>))

\* A default that replaces the change mode the caller gives.
ApplyDefaultChangeModeOverriding(operation, payload, default_change_mode) ==
    IF default_change_mode = PyNone THEN payload
    ELSE IF ~\E i \in 1..Len(operation.params) :
                 operation.params[i].name = "changeMode"
    THEN payload
    ELSE DictSet(payload, K("changeMode"), default_change_mode)

\* _apply_default_change_mode(operation, payload, default_change_mode)
ApplyDefaultChangeMode(operation, payload, default_change_mode) ==
    IF default_change_mode = PyNone THEN payload
    ELSE IF DictGet(payload, K("changeMode")) # PyNone THEN payload
    ELSE IF ~\E i \in 1..Len(operation.params) :
                 operation.params[i].name = "changeMode"
    THEN payload
    ELSE DictSet(payload, K("changeMode"), default_change_mode)

_SESSION_BOUND_EXCEPTIONS == {DocOpen}

\* _derive_session_bound_ids()
_SESSION_BOUND_OPERATION_IDS ==
    {op_id \in OperationIds :
        /\ op_id \notin _SESSION_BOUND_EXCEPTIONS
        /\ \E i \in 1..Len(OPERATION_INDEX[op_id].params) :
               OPERATION_INDEX[op_id].params[i].name = "sessionId"}

\* _read_json on the text of a file (None when the file cannot be read).
DictOrNone(parsed) ==
    IF ~parsed.ok THEN PyNone
    ELSE IF ~IsDict(parsed.val) THEN PyNone
    ELSE parsed.val

ReadJson(raw) == IF raw = PyNone THEN PyNone ELSE DictOrNone(JsonLoads(raw.v))

\* The active session as the marker gives it, white space included.
ResolveActiveSessionIdUntrimmed(marker) ==
    IF ~Truthy(marker) THEN PyNone ELSE marker

\* _resolve_active_session_id(env), marker being the text of the
\* active-session file of the project (None when it cannot be read).
ResolveActiveSessionId(marker) ==
    IF ~Truthy(marker) THEN PyNone
    ELSE IF Strip(marker.v) = <<>> THEN PyNone
    ELSE PyStr(Strip(marker.v))

\* A session counts as a collaboration session when it has any metadata.
IsCollabSessionAnyMetadata(session_id, metadata) ==
    Truthy(ReadJson(IF session_id.v \in DOMAIN metadata
                    THEN metadata[session_id.v] ELSE PyNone))

\* _is_collab_session(session_id, env), metadata giving the text of the
\* metadata.json of each session that has one.
IsCollabSession(session_id, metadata) ==
    LET read == ReadJson(IF session_id.v \in DOMAIN metadata
                         THEN metadata[session_id.v] ELSE PyNone)
    IN  /\ Truthy(read)
        /\ DictGet(read, K("sessionType")) = PyStr(<<"collab">>)

\* A resolution that auto-targets doc.session.close like any other
\* operation that declares sessionId.
TargetSessionIdCloseAutoTargets(operation_id, params, marker) ==
    IF operation_id \notin _SESSION_BOUND_OPERATION_IDS THEN PyNone
    ELSE IF DictGet(params, K("doc")) # PyNone THEN PyNone
    ELSE IF IsStr(DictGet(params, K("sessionId"))) /\ DictGet(params, K("sessionId")).v # <<>>
    THEN DictGet(params, K("sessionId"))
    ELSE ResolveActiveSessionId(marker)

\* _target_session_id(operation_id, params, env)
TargetSessionId(operation_id, params, marker) ==
    LET value == DictGet(params, K("sessionId"))
    IN  IF operation_id = DocSessionClose
        THEN IF IsStr(value) /\ value.v # <<>> THEN value ELSE PyNone
        ELSE IF operation_id \notin _SESSION_BOUND_OPERATION_IDS THEN PyNone
        ELSE IF DictGet(params, K("doc")) # PyNone THEN PyNone
        ELSE IF IsStr(value) /\ value.v # <<>> THEN value
        ELSE ResolveActiveSessionId(marker)

CollabFields == <<"collaboration", "collabUrl", "collabDocumentId">>

\* A guard that looks at collabUrl only when a document is opened.
RejectPythonCollaborationUrlOnly(operation_id, params, marker, metadata) ==
    IF operation_id = DocOpen
    THEN IF DictGet(params, K("collabUrl")) # PyNone
         THEN Raise(<<"Collaboration is not supported in the Python SDK.">>,
                    "NOT_SUPPORTED",
                    PyDict(<< <<K("operation"), PyStr(operation_id)>>,
                              <<K("field"), PyStr(K("collabUrl"))>> >>))
         ELSE Return(PyNone)
    ELSE Return(PyNone)

\* _reject_python_collaboration(operation_id, params, env)
RejectPythonCollaboration(operation_id, params, marker, metadata) ==
    LET given == {i \in 1..Len(CollabFields) :
                   DictGet(params, K(CollabFields[i])) # PyNone}
        session_id == TargetSessionId(operation_id, params, marker)
    IN  IF operation_id = DocOpen
        THEN IF given # {}
             THEN Raise(<<"Collaboration is not supported in the Python SDK.">>,
                        "NOT_SUPPORTED",
                        PyDict(<< <<K("operation"), PyStr(operation_id)>>,
                                  <<K("field"), PyStr(K(CollabFields[Min(given)]))>> >>))
             ELSE Return(PyNone)
        ELSE IF ~Truthy(session_id) THEN Return(PyNone)
        ELSE IF IsCollabSession(session_id, metadata)
        THEN Raise(<<"Collaboration sessions are not supported in the Python SDK.">>,
                   "NOT_SUPPORTED",
                   PyDict(<< <<K("operation"), PyStr(operation_id)>>,
                             <<K("sessionId"), session_id>> >>))
        ELSE Return(PyNone)

-----------------------------------------------------------------------------
(* runtime.py: invoke, of SuperDocSyncRuntime and SuperDocAsyncRuntime.    *)

\* An exception that is no SuperDocError leaves the call.
Escapes(exception) ==
    [kind |-> "escape", message |-> PyNone, code |-> PyNone,
     val |-> PyStr(<<exception>>), exit_code |-> PyNone]

\* The end of the argument list that gives --timeout-ms for a truthy
\* timeout only.
FinalArgsTruthyTimeout(args, timeout_ms) ==
    (IF Truthy(timeout_ms) THEN args \o << <<"--", "timeout-ms">>, StrOf(timeout_ms) >>
     ELSE args)
        \o << <<"--", "output">>, <<"json">> >>

\* if timeout_ms is not None: args.extend(['--timeout-ms', str(timeout_ms)])
\* args.extend(['--output', 'json'])
FinalArgs(args, timeout_ms) ==
    (IF timeout_ms # PyNone
     THEN args \o << <<"--", "timeout-ms">>, StrOf(timeout_ms) >>
     ELSE args)
        \o << <<"--", "output">>, <<"json">> >>

\* A result that reports every failure envelope as a failed command.
InvokeResultGenericError(parsed, gate, exit_code) ==
    IF parsed.kind = "raise" THEN parsed
    ELSE IF gate.kind = "raise" THEN gate
    ELSE IF Truthy(DictGet(parsed.val, K("ok")))
    THEN Return(DictGet(parsed.val, K("data")))
    ELSE SuperDocError(PyStr(<<"Unknown CLI error">>), PyStr(<<"COMMAND_FAILED">>),
                       PyNone, exit_code)

\* The result that takes a non-zero exit code for a failure of the command.
InvokeResultChecksExit(parsed, gate, exit_code) ==
    IF exit_code # PyInt(0)
    THEN SuperDocError(PyStr(<<"Unknown CLI error">>), PyStr(<<"COMMAND_FAILED">>),
                       PyNone, exit_code)
    ELSE IF parsed.kind = "raise" THEN parsed
    ELSE IF gate.kind = "raise" THEN gate
    ELSE Return(DictGet(parsed.val, K("data")))

\* invoke from the decoding of the output on: parsed is what _parse_envelope
\* did, gate what _ensure_cli_version_compatible did with the envelope.
InvokeResult(parsed, gate, exit_code) ==
    IF parsed.kind = "raise" THEN parsed
    ELSE IF gate.kind = "raise" THEN gate
    ELSE
    LET envelope == parsed.val
        error == IF HasKey(envelope, K("error")) THEN DictGet(envelope, K("error"))
                 ELSE PyDict(<<>>)
    IN  IF Truthy(DictGet(envelope, K("ok")))
        THEN IF HasKey(envelope, K("data"))
             THEN Return(DictGet(envelope, K("data")))
             ELSE Escapes("KeyError")
        ELSE IF ~IsDict(error) THEN Escapes("AttributeError")
        ELSE SuperDocError(
                 IF HasKey(error, K("message")) THEN DictGet(error, K("message"))
                 ELSE PyStr(<<"Unknown CLI error">>),
                 IF HasKey(error, K("code")) THEN DictGet(error, K("code"))
                 ELSE PyStr(<<"COMMAND_FAILED">>),
                 DictGet(error, K("details")),
                 exit_code)

-----------------------------------------------------------------------------
(* One call, through invoke or through a dispatch function, and the one    *)
(* process it starts.                                                      *)

\* What a caller gives for a param of the call: nothing or a value.
CallChoices(spec) ==
    {Missing} \cup
    CASE spec.name = "doc" -> {PyStr(<<"a.docx">>)}
      [] spec.name = "sessionId" -> {PyStr(<<"s1">>)}
      [] spec.name = "collabUrl" -> {PyStr(<<"wss://collab">>)}
      [] spec.name = "target" -> {PyDict(<< <<K("blockId"), PyStr(<<"p1">>)>> >>)}
      [] spec.name = "inline" -> {PyDict(<< <<K("bold"), PyBool(TRUE)>> >>)}
      [] spec.name = "changeMode" -> {PyStr(<<"direct">>)}
      [] spec.name = "query" -> {PyDict(<< <<K("text"), PyStr(<<"a">>)>> >>)}
      [] spec.name = "ids" -> {PyList(<<PyStr(<<"a">>), PyStr(<<"b">>)>>), PyStr(<<"a">>)}
      [] spec.name = "blockIds" -> {PyList(<<PyStr(<<"b1">>)>>), PyList(<<>>)}
      [] spec.name = "text" -> {PyStr(<<"hi">>)}
      [] spec.name = "mode" -> {PyStr(<<"reply">>), PyStr(<<"new">>)}

\* The items of the maps that give a choice for each param from index i on.
RECURSIVE CallItems(_, _)
CallItems(params, i) ==
    IF i > Len(params) THEN {<<>>}
    ELSE UNION {IF c = Missing THEN CallItems(params, i + 1)
                ELSE {<< <<K(params[i].name), c>> >> \o rest :
                         rest \in CallItems(params, i + 1)} :
                   c \in CallChoices(params[i])}

\* The maps a caller gives for the params: None, a choice for each param,
\* and a map with a key the operation does not declare.
CallMaps(params) ==
    {PyNone, PyDict(<< <<K("bogus"), PyInt(1)>> >>)}
    \cup {PyDict(items) : items \in CallItems(params, 1)}

\* timeout_ms: none, zero, thirty seconds.
Timeouts == {PyNone, PyInt(0), PyInt(30000)}

\* SUPERDOC_CLI_BIN: a binary, a script for node, a script for bun.
CliBins == {<<"superdoc">>, <<"cli", ".js">>, <<"cli", ".TS">>}

SessionIds == {<<"s1">>, <<"s2">>}
CollabMetadata ==
    PyStr(<<"{", Q, "sessionType", Q, ":", Q, "collab", Q, "}">>)
LocalMetadata ==
    PyStr(<<"{", Q, "sessionType", Q, ":", Q, "local", Q, "}">>)

\* The state directory: nothing in it; s2 active and a collaboration
\* session; s1 a collaboration session and no session active.
StateDirs ==
    {[marker |-> PyNone, metadata |-> [s \in SessionIds |-> PyNone]],
     [marker |-> PyStr(<<"s2", "\n">>),
      metadata |-> [s \in SessionIds |->
                       IF s = <<"s2">> THEN CollabMetadata ELSE LocalMetadata]],
     [marker |-> PyNone,
      metadata |-> [s \in SessionIds |->
                       IF s = <<"s1">> THEN CollabMetadata ELSE PyNone]]}

\* The lines of a CLI run.
VersionField(v) == <<Q, "meta", Q, ":", "{", Q, "version", Q, ":", Q>> \o v \o <<Q, "}">>
DataField == <<Q, "data", Q, ":", "{", Q, "applied", Q, ":", "true", "}">>
OkLine(v) ==
    <<"{", Q, "ok", Q, ":", "true", ",">> \o DataField \o <<",">> \o VersionField(v)
        \o <<"}">>
NoDataLine ==
    <<"{", Q, "ok", Q, ":", "true", ",">> \o VersionField(<<"1", ".", "2", ".", "0">>)
        \o <<"}">>
FailLine ==
    <<"{", Q, "ok", Q, ":", "false", ",", Q, "error", Q, ":", "{",
      Q, "code", Q, ":", Q, "FILE_NOT_FOUND", Q, ",",
      Q, "message", Q, ":", Q, "No such file", Q, ",",
      Q, "details", Q, ":", "{", Q, "path", Q, ":", Q, "a.docx", Q, "}", "}", "}">>
\* A failure envelope of a CLI of version 0.9.0.
OldFailLine ==
    <<"{", Q, "ok", Q, ":", "false", ",", Q, "error", Q, ":", "{",
      Q, "code", Q, ":", Q, "FILE_NOT_FOUND", Q, ",",
      Q, "message", Q, ":", Q, "No such file", Q, "}", ",">>
        \o VersionField(<<"0", ".", "9", ".", "0">>) \o <<"}">>
BareFailLine == <<"{", Q, "ok", Q, ":", "false", "}">>
NullErrorLine == <<"{", Q, "ok", Q, ":", "false", ",", Q, "error", Q, ":", "null", "}">>

\* What the process prints and its exit code.
ProcessRuns ==
    {[out |-> OkLine(<<"1", ".", "2", ".", "0">>), err |-> <<>>, code |-> 0],
     [out |-> OkLine(<<"1", ".", "2", ".", "0">>), err |-> NoiseLine, code |-> 1],
     [out |-> OkLine(<<"0", ".", "9", ".", "0">>), err |-> <<>>, code |-> 0],
     [out |-> NoDataLine, err |-> <<>>, code |-> 0],
     [out |-> NoiseLine, err |-> FailLine, code |-> 1],
     [out |-> <<>>, err |-> OldFailLine, code |-> 1],
     [out |-> BareFailLine, err |-> <<>>, code |-> 1],
     [out |-> NullErrorLine, err |-> <<>>, code |-> 1],
     [out |-> NoiseLine, err |-> <<>>, code |-> 0],
     [out |-> <<>>, err |-> <<>>, code |-> 1]}

\* The operation identifiers given to invoke, and the tool names given to a
\* dispatch function.
InvokedOperations == OperationIds \cup {DocMissing}
DispatchedTools == ToolNames \cup {<<"unknown_tool">>}

ParamsOf(operation_id) ==
    IF operation_id \in OperationIds THEN OPERATION_INDEX[operation_id].params
    ELSE <<>>

\* The calls vary the command line under invoke on the sync runtime with an
\* empty state directory, and the entry, the client and the state directory
\* under the embedded binary without a timeout or a default change mode.
Init ==
    /\ EnvelopeIdle
    /\ EncodeIdle
    /\ PolicyIdle
    /\ minVersion = ContractMinVersion
    /\ gateEnvelope = PyNone
    /\ gated = NotYet
    /\ entry \in {"invoke", "dispatch", "dispatch_async"}
    /\ client \in IF entry = "invoke" THEN {"sync", "async"}
                  ELSE {"sync", "async", "object"}
    /\ IF entry = "invoke"
       THEN /\ callTool = <<>>
            /\ callOperation \in {PyStr(id) : id \in InvokedOperations}
            /\ callParams \in CallMaps(ParamsOf(callOperation.v))
            /\ pc = "invoke"
       ELSE /\ callTool \in DispatchedTools
            /\ callOperation = PyNone
            /\ callParams \in CallMaps(ParamsOf(ResolveToolOperation(callTool).v))
            /\ pc = "dispatch"
    /\ timeoutMs \in Timeouts
    /\ cliBin \in CliBins
    /\ defaultChangeMode \in {PyNone, PyStr(<<"tracked">>)}
    /\ requestedChangeMode = defaultChangeMode
    /\ \E dir \in StateDirs :
          /\ activeMarker = dir.marker
          /\ sessionMetadata = dir.metadata
    /\ \/ /\ entry = "invoke"
          /\ client = "sync"
          /\ activeMarker = PyNone
          /\ \A s \in SessionIds : sessionMetadata[s] = PyNone
       \/ /\ timeoutMs = PyNone
          /\ cliBin = <<"superdoc">>
          /\ defaultChangeMode = PyNone
    /\ callPayload = PyNone
    /\ argv = <<>>
    /\ spawns = 0
    /\ returncode = PyNone
    /\ outcome = NotYet

\* dispatch_superdoc_tool and dispatch_superdoc_tool_async, up to the call of
\* the client method, which calls invoke with the operation of the tool.
Dispatch ==
    /\ pc = "dispatch"
    /\ LET checks == DispatchChecks(entry = "dispatch_async", client, callTool,
                                    callParams)
       IN  IF checks.kind = "raise"
           THEN /\ outcome' = checks
                /\ pc' = "done"
                /\ UNCHANGED <<callOperation, callParams>>
           ELSE /\ outcome' = outcome
                /\ pc' = "invoke"
                /\ callOperation' = ResolveToolOperation(callTool)
                /\ callParams' = OrEmptyDict(callParams)
    /\ UNCHANGED <<polVars, envVars, verVars, encVars, entry, client, callTool, timeoutMs,
                   cliBin, requestedChangeMode, defaultChangeMode, activeMarker,
                   sessionMetadata, callPayload, argv, spawns, returncode>>

\* invoke, up to the start of the process: the lookup of the operation, the
\* default change mode, the collaboration guard, the encoding of the params
\* and the end of the argument list.
Prepare ==
    /\ pc = "invoke"
    /\ IF callOperation.v \notin OperationIds
       THEN /\ outcome' = Escapes("KeyError")
            /\ pc' = "done"
            /\ UNCHANGED <<callPayload, argv>>
       ELSE /\ callPayload' = ApplyDefaultChangeMode(OPERATION_INDEX[callOperation.v],
                                                     OrEmptyDict(callParams),
                                                     defaultChangeMode)
            /\ LET operation == OPERATION_INDEX[callOperation.v]
                   invocation == ResolveInvocation(cliBin)
                   guard == RejectPythonCollaboration(callOperation.v, callPayload',
                                                      activeMarker, sessionMetadata)
                   encoded == EncodeParams(invocation.prefix \o operation.commandTokens,
                                           operation.params, callPayload', 1)
               IN  IF guard.kind = "raise"
                   THEN outcome' = guard /\ pc' = "done" /\ argv' = argv
                   ELSE IF encoded.error # NotYet
                   THEN outcome' = encoded.error /\ pc' = "done" /\ argv' = argv
                   ELSE /\ outcome' = outcome
                        /\ pc' = "spawn"
                        /\ argv' = <<invocation.command>>
                                      \o FinalArgs(encoded.args, timeoutMs)
    /\ UNCHANGED <<polVars, envVars, verVars, encVars, callVars, callOperation, spawns,
                   returncode>>

\* subprocess.run / create_subprocess_exec and communicate: the process runs
\* to its end and its output is collected.
Spawn ==
    /\ pc = "spawn"
    /\ spawns' = spawns + 1
    /\ \E run \in ProcessRuns :
          /\ stdout' = run.out
          /\ stderr' = run.err
          /\ returncode' = PyInt(run.code)
    /\ pc' = "exited"
    /\ UNCHANGED <<polVars, decoded, verVars, encVars, callVars, callOperation,
                   callPayload,
                   argv, outcome>>

\* subprocess.run / create_subprocess_exec cannot start the executable.
SpawnFails ==
    /\ pc = "spawn"
    /\ spawns' = spawns + 1
    /\ outcome' = Escapes("OSError")
    /\ pc' = "done"
    /\ UNCHANGED <<polVars, envVars, verVars, encVars, callVars, callOperation,
                   callPayload,
                   argv, returncode>>

\* A finish that starts the process again after a failure.
FinishRetries ==
    /\ pc = "exited"
    /\ decoded' = ParseEnvelope(stdout, stderr)
    /\ IF decoded'.kind = "raise" \/ returncode # PyInt(0)
       THEN /\ pc' = "spawn"
            /\ UNCHANGED <<gateEnvelope, gated, outcome>>
       ELSE /\ gateEnvelope' = decoded'.val
            /\ gated' = EnsureCliVersionCompatible(minVersion, gateEnvelope')
            /\ outcome' = InvokeResult(decoded', gated', returncode)
            /\ pc' = "done"
    /\ UNCHANGED <<polVars, stdout, stderr, minVersion, encVars, callVars, callOperation,
                   callPayload, argv, spawns, returncode>>

\* invoke, from the decoding of the output to its return or raise.
Finish ==
    /\ pc = "exited"
    /\ decoded' = ParseEnvelope(stdout, stderr)
    /\ gateEnvelope' = IF decoded'.kind = "return" THEN decoded'.val ELSE PyNone
    /\ gated' = IF decoded'.kind = "return"
                THEN EnsureCliVersionCompatible(minVersion, gateEnvelope')
                ELSE NotYet
    /\ outcome' = InvokeResult(decoded', gated', returncode)
    /\ pc' = "done"
    /\ UNCHANGED <<polVars, stdout, stderr, minVersion, encVars, callVars, callOperation,
                   callPayload, argv, spawns, returncode>>

Next == Dispatch \/ Prepare \/ Spawn \/ SpawnFails \/ Finish

Spec == Init /\ [][Next]_vars

-----------------------------------------------------------------------------
(* The default change mode: a runtime is built with a default_change_mode  *)
(* and one call of invoke is made on it, up to the start of the process.   *)

\* default_change_mode of the constructor: none, the two modes, another
\* word, the empty string, a number.
RequestedChangeModes ==
    {PyNone, PyStr(<<"direct">>), PyStr(<<"tracked">>), PyStr(<<"suggest">>),
     PyStr(<<>>), PyInt(1)}

\* The maps of a call and, for each that has no changeMode, the map with a
\* changeMode of None and the map with a changeMode of "tracked" after its
\* keys.
ChangeModeMaps(params) ==
    CallMaps(params)
    \cup {PyDict(d.v \o << <<K("changeMode"), c>> >>) :
            d \in {x \in CallMaps(params) : x # PyNone /\ ~HasKey(x, K("changeMode"))},
            c \in {PyNone, PyStr(<<"tracked">>)}}

InitChangeMode ==
    /\ EnvelopeIdle
    /\ EncodeIdle
    /\ PolicyIdle
    /\ minVersion = ContractMinVersion
    /\ gateEnvelope = PyNone
    /\ gated = NotYet
    /\ entry = "invoke"
    /\ client \in {"sync", "async"}
    /\ callTool = <<>>
    /\ callOperation \in {PyStr(id) : id \in InvokedOperations}
    /\ callParams \in ChangeModeMaps(ParamsOf(callOperation.v))
    /\ pc = "construct"
    /\ timeoutMs = PyNone
    /\ cliBin = <<"superdoc">>
    /\ requestedChangeMode \in RequestedChangeModes
    /\ defaultChangeMode = PyNone
    /\ activeMarker = PyNone
    /\ sessionMetadata = [s \in SessionIds |-> PyNone]
    /\ callPayload = PyNone
    /\ argv = <<>>
    /\ spawns = 0
    /\ returncode = PyNone
    /\ outcome = NotYet

\* __init__ of SuperDocSyncRuntime and AsyncSuperDocRuntime: the default is
\* normalized, and the error of the normalization leaves the constructor.
Construct ==
    /\ pc = "construct"
    /\ IF NormalizeDefaultChangeMode(requestedChangeMode).kind = "raise"
       THEN /\ outcome' = NormalizeDefaultChangeMode(requestedChangeMode)
            /\ pc' = "done"
            /\ UNCHANGED defaultChangeMode
       ELSE /\ defaultChangeMode' = NormalizeDefaultChangeMode(requestedChangeMode).val
            /\ pc' = "invoke"
            /\ UNCHANGED outcome
    /\ UNCHANGED <<polVars, envVars, verVars, encVars, entry, client, callTool, callParams,
                   timeoutMs, cliBin, requestedChangeMode, activeMarker, sessionMetadata,
                   callOperation, callPayload, argv, spawns, returncode>>

NextChangeMode == Construct \/ Prepare

SpecChangeMode == InitChangeMode /\ [][NextChangeMode]_vars

-----------------------------------------------------------------------------
(* The session resolver and the collaboration guard applied to an          *)
(* operation, a parameter map and a state directory.                       *)

\* The operations: those of the contract and one the contract lacks.
SessionOperations == OperationIds \cup {DocMissing}

\* params['doc'] and params['sessionId']: missing, None or a string.
SessionDocChoices == {Missing, PyNone, PyStr(<<"a.docx">>)}
SessionIdChoices == {Missing, PyNone, PyStr(<<>>), PyStr(<<"s1">>), PyStr(<<"s2">>)}

\* The collaboration fields of params.
SessionCollabChoices ==
    {<<>>,
     << <<K("collabUrl"), PyNone>> >>,
     << <<K("collabUrl"), PyStr(<<"wss://collab">>)>> >>,
     << <<K("collaboration"), PyDict(<< <<K("url"), PyStr(<<"wss://collab">>)>> >>)>> >>,
     << <<K("collabDocumentId"), PyStr(<<"d1">>)>> >>,
     << <<K("collabUrl"), PyNone>>, <<K("collabDocumentId"), PyStr(<<"d1">>)>> >>}

SessionItem(name, choice) == IF choice = Missing THEN <<>> ELSE << <<K(name), choice>> >>

SessionParamMaps ==
    {PyDict(SessionItem("doc", d) \o SessionItem("sessionId", s) \o c) :
        d \in SessionDocChoices, s \in SessionIdChoices, c \in SessionCollabChoices}

\* The active-session file: absent, empty, blank, s2 and a newline, s1
\* between spaces.
SessionMarkers ==
    {PyNone, PyStr(<<>>), PyStr(<<" ", "\n">>), PyStr(<<"s2", "\n">>),
     PyStr(<<" ", "s1", " ">>)}

\* A metadata.json: absent, of a collaboration session, of a local session,
\* a JSON list, no JSON, an empty object.
SessionMetadataTexts ==
    {PyNone, CollabMetadata, LocalMetadata, PyStr(<<"[", "1", "]">>), PyStr(<<"{">>),
     PyStr(<<"{", "}">>)}

InitSession ==
    /\ EnvelopeIdle
    /\ VersionIdle
    /\ EncodeIdle
    /\ PolicyIdle
    /\ pc = "idle"
    /\ entry = "none"
    /\ client = "none"
    /\ callTool = <<>>
    /\ callOperation \in {PyStr(id) : id \in SessionOperations}
    /\ callParams \in SessionParamMaps
    /\ callPayload = PyNone
    /\ timeoutMs = PyNone
    /\ cliBin = <<>>
    /\ requestedChangeMode = PyNone
    /\ defaultChangeMode = PyNone
    /\ activeMarker \in SessionMarkers
    /\ sessionMetadata \in {[s \in SessionIds |-> IF s = <<"s1">> THEN one ELSE two] :
                                one \in SessionMetadataTexts,
                                two \in {PyNone, CollabMetadata}}
    /\ argv = <<>>
    /\ spawns = 0
    /\ returncode = PyNone
    /\ outcome = NotYet

\* A call of _target_session_id.
ResolveTarget ==
    /\ resolved = NotYet
    /\ resolved' = Return(TargetSessionId(callOperation.v, callParams, activeMarker))
    /\ UNCHANGED <<envVars, verVars, encVars, callVars, invVars, rejected, validated, selVars>>

\* A call of _reject_python_collaboration.
RejectCollaboration ==
    /\ rejected = NotYet
    /\ rejected' = RejectPythonCollaboration(callOperation.v, callParams, activeMarker,
                                             sessionMetadata)
    /\ UNCHANGED <<envVars, verVars, encVars, callVars, invVars, resolved, validated, selVars>>

NextSession == ResolveTarget \/ RejectCollaboration

SpecSession == InitSession /\ [][NextSession]_vars

-----------------------------------------------------------------------------
(* Calls of _validate_dispatch_args.                                       *)

\* What a caller gives for a declared param: nothing, None or a value.
ValidateChoices(spec) == CallChoices(spec) \cup {PyNone}

\* The items of the maps that give a choice for each param from index i on.
RECURSIVE ValidateItems(_, _)
ValidateItems(params, i) ==
    IF i > Len(params) THEN {<<>>}
    ELSE UNION {{SessionItem(params[i].name, c) \o rest :
                    rest \in ValidateItems(params, i + 1)} :
                   c \in ValidateChoices(params[i])}

\* A key no operation declares.
UndeclaredItem == <<K("bogus"), PyInt(1)>>

\* The argument maps: a choice for each declared param, alone and followed
\* by the undeclared key.
ValidateMaps(params) ==
    {PyDict(items \o extra) :
        items \in ValidateItems(params, 1), extra \in {<<>>, <<UndeclaredItem>>}}

InitValidate ==
    /\ EnvelopeIdle
    /\ VersionIdle
    /\ EncodeIdle
    /\ PolicyIdle
    /\ pc = "idle"
    /\ entry = "none"
    /\ client = "none"
    /\ callTool = <<>>
    /\ callOperation \in {PyStr(id) : id \in InvokedOperations}
    /\ callParams \in ValidateMaps(ParamsOf(callOperation.v))
    /\ callPayload = PyNone
    /\ timeoutMs = PyNone
    /\ cliBin = <<>>
    /\ requestedChangeMode = PyNone
    /\ defaultChangeMode = PyNone
    /\ activeMarker = PyNone
    /\ sessionMetadata = [s \in SessionIds |-> PyNone]
    /\ argv = <<>>
    /\ spawns = 0
    /\ returncode = PyNone
    /\ outcome = NotYet

\* A call of _validate_dispatch_args.
Validate ==
    /\ validated = NotYet
    /\ validated' = ValidateDispatchArgs(callOperation.v, callParams)
    /\ UNCHANGED <<envVars, verVars, encVars, callVars, invVars, resolved, rejected, selVars>>

NextValidate == Validate

SpecValidate == InitValidate /\ [][NextValidate]_vars

-----------------------------------------------------------------------------
(* tools_api.py: the tool catalog selector.  The packaged assets           *)
(* (catalog.json, tools-policy.json, the provider bundles) are data of the *)
(* package.                                                                *)

\* A tool of a profile of catalog.json.
CatalogTool(tool_name, operation_id, category, mutates, capabilities, profile) ==
    PyDict(<< <<K("toolName"), PyStr(tool_name)>>,
              <<K("operationId"), PyStr(operation_id)>>,
              <<K("category"), PyStr(<<category>>)>>,
              <<K("mutates"), PyBool(mutates)>>,
              <<K("requiredCapabilities"),
                PyList([i \in 1..Len(capabilities) |-> PyStr(<<capabilities[i]>>)])>>,
              <<K("profile"), PyStr(<<profile>>)>> >>)

\* The intent profile: five tools, one for each operation of the contract.
IntentTools ==
    <<CatalogTool(<<"apply_format">>, DocFormatApply, "format", TRUE, <<>>, "intent"),
      CatalogTool(<<"find">>, DocFind, "query", FALSE, <<>>, "intent"),
      CatalogTool(<<"add_comment">>, DocCommentsAdd, "comments", TRUE,
                  <<"hasComments">>, "intent"),
      CatalogTool(<<"open_document">>, DocOpen, "session", FALSE, <<>>, "intent"),
      CatalogTool(<<"close_session">>, DocSessionClose, "session", FALSE, <<>>,
                  "intent")>>

\* The operation profile: the name find is there twice.
OperationTools ==
    <<CatalogTool(<<"find">>, DocFind, "query", FALSE, <<>>, "operation"),
      CatalogTool(<<"open_document">>, DocOpen, "session", FALSE, <<>>, "operation"),
      CatalogTool(<<"find">>, DocFind, "session", FALSE, <<"hasTables">>, "operation"),
      CatalogTool(<<"apply_format">>, DocFormatApply, "format", TRUE, <<>>,
                  "operation")>>

ToolsOfProfile(tools) == PyDict(<< <<K("tools"), PyList(tools)>> >>)

\* catalog.json
Catalog ==
    PyDict(<< <<K("profiles"),
                PyDict(<< <<K("intent"), ToolsOfProfile(IntentTools)>>,
                          <<K("operation"), ToolsOfProfile(OperationTools)>> >>)>> >>)

Categories(names) == PyList([i \in 1..Len(names) |-> PyStr(<<names[i]>>)])

PhaseEntry(include, exclude, priority) ==
    PyDict(<< <<K("include"), Categories(include)>>,
              <<K("exclude"), Categories(exclude)>>,
              <<K("priority"), Categories(priority)>> >>)

\* tools-policy.json: the defaults and the phases read, mutate and review
\* (the policy has no entry for locate).
ToolsPolicy ==
    PyDict(<< <<K("defaults"),
                PyDict(<< <<K("maxToolsByProfile"),
                            PyDict(<< <<K("intent"), PyInt(3)>>,
                                      <<K("operation"), PyInt(2)>> >>)>>,
                          <<K("minReadTools"), PyInt(2)>>,
                          <<K("foundationalOperationIds"),
                            PyList(<<PyStr(DocFind), PyStr(DocOpen)>>)>>,
                          <<K("chooserDecisionVersion"), PyStr(<<"v1">>)>> >>)>>,
              <<K("phases"),
                PyDict(<< <<K("read"),
                            PhaseEntry(<<"query", "session">>, <<"format">>,
                                       <<"session", "query">>)>>,
                          <<K("mutate"),
                            PhaseEntry(<<>>, <<>>, <<"format", "comments", "query">>)>>,
                          <<K("review"),
                            PhaseEntry(<<"comments", "query", "session">>, <<>>,
                                       <<"comments">>)>> >>)>> >>)

\* A tool of tools.openai.json and tools.vercel.json, and one of
\* tools.anthropic.json and tools.generic.json.
FunctionTool(name) ==
    PyDict(<< <<K("type"), PyStr(<<"function">>)>>,
              <<K("function"), PyDict(<< <<K("name"), PyStr(name)>> >>)>> >>)
NamedTool(name) == PyDict(<< <<K("name"), PyStr(name)>> >>)

\* The bundle of a provider: every tool of the catalog but close_session in
\* the nested format, every tool in the flat format.
ProviderBundle(provider) ==
    LET nested == <<FunctionTool(<<"apply_format">>), FunctionTool(<<"find">>),
                    FunctionTool(<<"add_comment">>), FunctionTool(<<"open_document">>)>>
        flat == <<NamedTool(<<"apply_format">>), NamedTool(<<"find">>),
                  NamedTool(<<"add_comment">>), NamedTool(<<"open_document">>),
                  NamedTool(<<"close_session">>)>>
        tools == IF provider \in {<<"openai">>, <<"vercel">>} THEN nested ELSE flat
    IN  PyDict(<< <<K("profiles"),
                    PyDict(<< <<K("intent"), PyList(tools)>>,
                              <<K("operation"), PyList(tools)>> >>)>> >>)

\* The tool names of the catalog in ascending order of Python's str.
NamesAscending ==
    <<<<"add_comment">>, <<"apply_format">>, <<"close_session">>, <<"find">>,
      <<"open_document">>>>

\* name < other, for two names of the catalog.
NameBefore(name, other) ==
    \E i, j \in 1..Len(NamesAscending) :
        NamesAscending[i] = name /\ NamesAscending[j] = other /\ i < j

\* d.get(k, default)
DictGetOr(d, k, default) == IF HasKey(d, k) THEN DictGet(d, k) ELSE default

\* set(xs) of a list of strings.
SetOf(xs) == {xs.v[i] : i \in 1..Len(xs.v)}

Max(S) == CHOOSE x \in S : \A y \in S : x >= y

\* x or default
OrElse(x, default) == IF Truthy(x) THEN x ELSE default

\* _normalize_features(features)
FeatureNames ==
    <<"hasTables", "hasLists", "hasComments", "hasTrackedChanges", "isEmptyDocument">>
NormalizeFeatures(features) ==
    PyDict([i \in 1..Len(FeatureNames) |->
               <<K(FeatureNames[i]),
                 PyBool(IF Truthy(features)
                        THEN Truthy(DictGet(features, K(FeatureNames[i])))
                        ELSE FALSE)>>])

\* str(tool.get('toolName')) and str(tool.get('category', ''))
ToolName(tool) == StrOf(DictGet(tool, K("toolName")))
ToolCategory(tool) == PyStr(StrOf(DictGetOr(tool, K("category"), PyStr(<<>>))))

\* priority_index.get(str(tool.get('category')), 10_000)
PriorityRank(tool, priority) ==
    LET category == PyStr(StrOf(DictGet(tool, K("category"))))
        at == {i \in 1..Len(priority) : priority[i] = category}
    IN  IF at = {} THEN 10000 ELSE Max(at) - 1

\* The sort key of tool is less than the sort key of other.
KeyBefore(tool, other, priority) ==
    \/ PriorityRank(tool, priority) < PriorityRank(other, priority)
    \/ /\ PriorityRank(tool, priority) = PriorityRank(other, priority)
       /\ NameBefore(StrOf(DictGetOr(tool, K("toolName"), PyStr(<<>>))),
                     StrOf(DictGetOr(other, K("toolName"), PyStr(<<>>))))

\* A tool put into a sorted list, behind the tools whose key is not greater.
InsertByKey(sorted, tool, priority) ==
    LET k == Cardinality({i \in 1..Len(sorted) : ~KeyBefore(tool, sorted[i], priority)})
    IN  SubSeq(sorted, 1, k) \o <<tool>> \o SubSeq(sorted, k + 1, Len(sorted))

\* The tools in the order they are given in.
PrioritySortAsGiven(tools, priority) == tools

\* _priority_sort(tools, priority): sorted is stable.
RECURSIVE PrioritySort(_, _)
PrioritySort(tools, priority) ==
    IF tools = <<>> THEN <<>>
    ELSE InsertByKey(PrioritySort(SubSeq(tools, 1, Len(tools) - 1), priority),
                     tools[Len(tools)], priority)

\* _extract_provider_tool_name(tool)
ExtractProviderToolName(tool) ==
    IF IsStr(DictGet(tool, K("name"))) THEN DictGet(tool, K("name"))
    ELSE IF /\ IsDict(DictGet(tool, K("function")))
            /\ IsStr(DictGet(DictGet(tool, K("function")), K("name")))
    THEN DictGet(DictGet(tool, K("function")), K("name"))
    ELSE PyNone

\* An entry of excluded.
ExcludedEntry(tool_name, reason) ==
    PyDict(<< <<K("toolName"), PyStr(tool_name)>>, <<K("reason"), PyStr(<<reason>>)>> >>)

\* A should_include that looks at mutates before the capabilities.
AdmissionReasonMutatesFirst(tool, features, allow_mutating_tools, include_categories, exclude_categories) ==
    LET required_caps == DictGet(tool, K("requiredCapabilities"))
    IN  IF ~allow_mutating_tools /\ Truthy(DictGet(tool, K("mutates")))
        THEN "mutations-disabled"
        ELSE IF /\ IsList(required_caps)
                /\ \E i \in 1..Len(required_caps.v) :
                      /\ IsStr(required_caps.v[i])
                      /\ HasKey(features, required_caps.v[i].v)
                      /\ ~Truthy(DictGet(features, required_caps.v[i].v))
        THEN "missing-required-capability"
        ELSE IF include_categories # {} /\ ToolCategory(tool) \notin include_categories
        THEN "category-not-included"
        ELSE IF ToolCategory(tool) \in exclude_categories
        THEN "phase-category-excluded"
        ELSE ""

\* should_include(tool): the reason it appends to excluded, "" when it
\* returns True.
AdmissionReason(tool, features, allow_mutating_tools, include_categories, exclude_categories) ==
    LET required_caps == DictGet(tool, K("requiredCapabilities"))
    IN  IF /\ IsList(required_caps)
           /\ \E i \in 1..Len(required_caps.v) :
                 /\ IsStr(required_caps.v[i])
                 /\ HasKey(features, required_caps.v[i].v)
                 /\ ~Truthy(DictGet(features, required_caps.v[i].v))
        THEN "missing-required-capability"
        ELSE IF ~allow_mutating_tools /\ Truthy(DictGet(tool, K("mutates")))
        THEN "mutations-disabled"
        ELSE IF include_categories # {} /\ ToolCategory(tool) \notin include_categories
        THEN "category-not-included"
        ELSE IF ToolCategory(tool) \in exclude_categories
        THEN "phase-category-excluded"
        ELSE ""

\* index_by_name.get(name): the last tool of the pool with that name.
IndexByName(profile_tools, name) ==
    LET at == {i \in 1..Len(profile_tools) :
                  IsDict(profile_tools[i]) /\ ToolName(profile_tools[i]) = name}
    IN  IF at = {} THEN PyNone ELSE profile_tools[Max(at)]

\* Candidates that keep every tool of filtered.
DedupeKeepsAll(filtered) == filtered

\* list(deduped.values()): a name stays where it came first and keeps the
\* tool that came last.
Dedupe(filtered) ==
    LET firsts == SelectSeq([i \in 1..Len(filtered) |-> i],
                            LAMBDA i : \A j \in 1..(i - 1) :
                                          ToolName(filtered[j]) # ToolName(filtered[i]))
    IN  [k \in 1..Len(firsts) |->
            filtered[Max({j \in 1..Len(filtered) :
                             ToolName(filtered[j]) = ToolName(filtered[firsts[k]])})]]

\* The loop over foundational, from index i on.
RECURSIVE TakeFoundational(_, _, _, _, _)
TakeFoundational(foundational, i, selected, min_read_tools, max_tools) ==
    IF i > Len(foundational) THEN selected
    ELSE IF Len(selected) >= min_read_tools \/ Len(selected) >= max_tools THEN selected
    ELSE TakeFoundational(foundational, i + 1, Append(selected, foundational[i]),
                          min_read_tools, max_tools)

\* The loop over remaining, from index i on: selected and the entries it
\* appends to excluded.
RECURSIVE TakeRemaining(_, _, _, _, _)
TakeRemaining(remaining, i, selected, trimmed, max_tools) ==
    IF i > Len(remaining) THEN [selected |-> selected, trimmed |-> trimmed]
    ELSE IF Len(selected) >= max_tools
    THEN TakeRemaining(remaining, i + 1, selected,
                       Append(trimmed, ExcludedEntry(ToolName(remaining[i]), "budget-trim")),
                       max_tools)
    ELSE TakeRemaining(remaining, i + 1, Append(selected, remaining[i]), trimmed,
                       max_tools)

\* max_tools, without the clamp.
MaxToolsUnclamped(budget, defaults, profile) ==
    DictGetOr(budget, K("maxTools"),
              DictGetOr(DictGetOr(defaults, K("maxToolsByProfile"), PyDict(<<>>)),
                        profile.v, PyInt(12))).v

\* max_tools = max(1, int(budget.get('maxTools', max_by_profile.get(profile, 12))))
MaxTools(budget, defaults, profile) ==
    Max({1, DictGetOr(budget, K("maxTools"),
                      DictGetOr(DictGetOr(defaults, K("maxToolsByProfile"), PyDict(<<>>)),
                                profile.v, PyInt(12))).v})

\* min_read_tools = max(0, int(budget.get('minReadTools', defaults.get('minReadTools', 2))))
MinReadTools(budget, defaults) ==
    Max({0, DictGetOr(budget, K("minReadTools"),
                      DictGetOr(defaults, K("minReadTools"), PyInt(2))).v})

\* tools_policy.get('phases', {}).get(phase, {...})
PhasePolicy(tools_policy, phase) ==
    DictGetOr(DictGetOr(tools_policy, K("phases"), PyDict(<<>>)), phase.v,
              PhaseEntry(<<>>, <<>>, <<>>))

\* include_categories and exclude_categories
IncludeCategories(policy, phase_policy) ==
    SetOf(OrElse(DictGet(policy, K("includeCategories")),
                 DictGet(phase_policy, K("include"))))
ExcludeCategories(policy, phase_policy) ==
    SetOf(OrElse(DictGet(policy, K("excludeCategories")), PyList(<<>>)))
        \cup SetOf(DictGet(phase_policy, K("exclude")))

\* allow_mutating_tools
AllowMutatingTools(policy, phase) ==
    Truthy(DictGetOr(policy, K("allowMutatingTools"),
                     PyBool(phase = PyStr(<<"mutate">>))))

\* candidates, the tools of the pool that should_include admits, and the
\* entries should_include appends to excluded.
Admitted(profile_tools, features, allow, include, exclude) ==
    SelectSeq(profile_tools,
              LAMBDA tool : /\ IsDict(tool)
                            /\ AdmissionReason(tool, features, allow, include, exclude) = "")
AdmissionExcluded(profile_tools, features, allow, include, exclude) ==
    LET failed == SelectSeq(profile_tools,
                            LAMBDA tool :
                                /\ IsDict(tool)
                                /\ AdmissionReason(tool, features, allow, include,
                                                   exclude) # "")
    IN  [i \in 1..Len(failed) |->
            ExcludedEntry(ToolName(failed[i]),
                          AdmissionReason(failed[i], features, allow, include, exclude))]

\* A loop over candidates that drops none of them.
ForceKeptAll(candidates, force_exclude) == candidates

\* filtered after the loop over candidates, and the entries of the loop.
ForceKept(candidates, force_exclude) ==
    SelectSeq(candidates, LAMBDA tool : PyStr(ToolName(tool)) \notin force_exclude)
ForceExcluded(candidates, force_exclude) ==
    LET dropped == SelectSeq(candidates,
                             LAMBDA tool : PyStr(ToolName(tool)) \in force_exclude)
    IN  [i \in 1..Len(dropped) |-> ExcludedEntry(ToolName(dropped[i]), "force-excluded")]

\* A loop over forceInclude that appends nothing.
ForceIncludedNone(profile_tools, force_include) == <<>>

\* The tools the loop over forceInclude appends to filtered, and its entries.
ForceIncluded(profile_tools, force_include) ==
    LET found == SelectSeq(force_include,
                           LAMBDA name : IndexByName(profile_tools, StrOf(name)) # PyNone)
    IN  [i \in 1..Len(found) |-> IndexByName(profile_tools, StrOf(found[i]))]
NotInProfile(profile_tools, force_include) ==
    LET lost == SelectSeq(force_include,
                          LAMBDA name : IndexByName(profile_tools, StrOf(name)) = PyNone)
    IN  [i \in 1..Len(lost) |-> ExcludedEntry(StrOf(lost[i]), "not-in-profile")]

\* foundational
Foundational(candidates, foundational_ids) ==
    SelectSeq(candidates,
              LAMBDA tool : PyStr(StrOf(DictGet(tool, K("operationId")))) \in foundational_ids)

\* remaining
Remaining(candidates, selected, priority) ==
    SelectSeq(PrioritySort(candidates, priority),
              LAMBDA tool : \A i \in 1..Len(selected) :
                               ToolName(selected[i]) # ToolName(tool))

\* selected and the budget-trim entries, from the candidates and the
\* foundational tools selected first.
SelectAfter(candidates, selected, priority, max_tools) ==
    TakeRemaining(Remaining(candidates, selected, priority), 1, selected, <<>>, max_tools)
Select(candidates, foundational_ids, priority, min_read_tools, max_tools) ==
    SelectAfter(candidates,
                TakeFoundational(Foundational(candidates, foundational_ids), 1, <<>>,
                                 min_read_tools, max_tools),
                priority, max_tools)

\* provider_index.get(name): the last tool of the bundle with that name.
ProviderIndex(provider_tools, name) ==
    LET at == {i \in 1..Len(provider_tools) :
                  /\ IsDict(provider_tools[i])
                  /\ ExtractProviderToolName(provider_tools[i]) = PyStr(name)}
    IN  IF at = {} THEN PyNone ELSE provider_tools[Max(at)]

\* selected_provider_tools
SelectedProviderTools(provider, profile, selected) ==
    LET provider_bundle == ProviderBundle(provider.v)
        provider_profiles == IF IsDict(DictGet(provider_bundle, K("profiles")))
                             THEN DictGet(provider_bundle, K("profiles"))
                             ELSE PyDict(<<>>)
        provider_tools == DictGet(provider_profiles, profile.v).v
        known == SelectSeq(selected,
                           LAMBDA tool : ProviderIndex(provider_tools, ToolName(tool)) # PyNone)
    IN  [i \in 1..Len(known) |-> ProviderIndex(provider_tools, ToolName(known[i]))]

\* An entry of 'selected' in the result.
SelectedEntry(tool) ==
    PyDict(<< <<K("operationId"), PyStr(StrOf(DictGet(tool, K("operationId"))))>>,
              <<K("toolName"), PyStr(ToolName(tool))>>,
              <<K("category"), PyStr(StrOf(DictGet(tool, K("category"))))>>,
              <<K("mutates"), PyBool(Truthy(DictGet(tool, K("mutates"))))>>,
              <<K("profile"), PyStr(StrOf(DictGet(tool, K("profile"))))>> >>)

\* The dict choose_tools returns.
ChooserResult(provider, profile, phase, defaults, max_tools, min_read_tools, picked, excluded) ==
    PyDict(<< <<K("tools"),
                PyList(SelectedProviderTools(provider, profile, picked.selected))>>,
              <<K("selected"),
                PyList([i \in 1..Len(picked.selected) |->
                           SelectedEntry(picked.selected[i])])>>,
              <<K("excluded"), PyList(excluded \o picked.trimmed)>>,
              <<K("selectionMeta"),
                PyDict(<< <<K("profile"), profile>>,
                          <<K("phase"), phase>>,
                          <<K("maxTools"), PyInt(max_tools)>>,
                          <<K("minReadTools"), PyInt(min_read_tools)>>,
                          <<K("selectedCount"), PyInt(Len(picked.selected))>>,
                          <<K("decisionVersion"),
                            DictGetOr(defaults, K("chooserDecisionVersion"),
                                      PyStr(<<"v1">>))>>,
                          <<K("provider"), provider>> >>)>> >>)

\* choose_tools from line 247 on, with the candidates of should_include.
ChooseFrom(provider, profile, phase, profile_tools, policy, defaults, phase_policy, max_tools, min_read_tools, candidates, excluded) ==
    ChooserResult(
        provider, profile, phase, defaults, max_tools, min_read_tools,
        Select(Dedupe(ForceKept(candidates,
                                SetOf(OrElse(DictGet(policy, K("forceExclude")),
                                             PyList(<<>>))))
                      \o ForceIncluded(profile_tools,
                                       OrElse(DictGet(policy, K("forceInclude")),
                                              PyList(<<>>)).v)),
               SetOf(DictGetOr(defaults, K("foundationalOperationIds"), PyList(<<>>))),
               DictGet(phase_policy, K("priority")).v, min_read_tools, max_tools),
        excluded
            \o ForceExcluded(candidates,
                             SetOf(OrElse(DictGet(policy, K("forceExclude")),
                                          PyList(<<>>))))
            \o NotInProfile(profile_tools,
                            OrElse(DictGet(policy, K("forceInclude")), PyList(<<>>)).v))

\* choose_tools from line 237 on.
ChooseWith(provider, profile, phase, input, catalog, tools_policy) ==
    LET profile_tools ==
            IF IsDict(DictGet(catalog, K("profiles")))
            THEN DictGet(DictGetOr(DictGetOr(catalog, K("profiles"), PyDict(<<>>)),
                                   profile.v, PyDict(<<>>)),
                         K("tools"))
            ELSE PyList(<<>>)
        policy == DictGetOr(input, K("policy"), PyDict(<<>>))
        budget == DictGetOr(input, K("budget"), PyDict(<<>>))
        defaults == DictGetOr(tools_policy, K("defaults"), PyDict(<<>>))
        phase_policy == PhasePolicy(tools_policy, phase)
        features == NormalizeFeatures(DictGet(input, K("documentFeatures")))
    IN  IF ~IsList(profile_tools)
        THEN Raise(<<"Catalog profile tools are invalid.">>, "TOOLS_ASSET_INVALID",
                   PyDict(<< <<K("profile"), profile>> >>))
        ELSE Return(ChooseFrom(
                 provider, profile, phase, profile_tools.v, policy, defaults,
                 phase_policy, MaxTools(budget, defaults, profile),
                 MinReadTools(budget, defaults),
                 Admitted(profile_tools.v, features, AllowMutatingTools(policy, phase),
                          IncludeCategories(policy, phase_policy),
                          ExcludeCategories(policy, phase_policy)),
                 AdmissionExcluded(profile_tools.v, features,
                                   AllowMutatingTools(policy, phase),
                                   IncludeCategories(policy, phase_policy),
                                   ExcludeCategories(policy, phase_policy))))

\* choose_tools(input)
ChooseTools(input) ==
    LET provider == DictGet(input, K("provider"))
        profile == DictGetOr(input, K("profile"), PyStr(<<"intent">>))
        phase == DictGetOr(DictGetOr(input, K("taskContext"), PyDict(<<>>)), K("phase"),
                           PyStr(<<"read">>))
    IN  IF provider \notin {PyStr(<<"openai">>), PyStr(<<"anthropic">>),
                            PyStr(<<"vercel">>), PyStr(<<"generic">>)}
        THEN Raise(<<"provider is required.">>, "INVALID_ARGUMENT",
                   PyDict(<< <<K("provider"), provider>> >>))
        ELSE IF profile \notin {PyStr(<<"intent">>), PyStr(<<"operation">>)}
        THEN Raise(<<"profile must be ", Q, "intent", Q, " or ", Q, "operation", Q, ".">>,
                   "INVALID_ARGUMENT", PyDict(<< <<K("profile"), profile>> >>))
        ELSE IF phase \notin {PyStr(<<"read">>), PyStr(<<"locate">>), PyStr(<<"mutate">>),
                              PyStr(<<"review">>)}
        THEN Raise(<<"phase must be read|locate|mutate|review.">>, "INVALID_ARGUMENT",
                   PyDict(<< <<K("phase"), phase>> >>))
        ELSE ChooseWith(provider, profile, phase, input, Catalog, ToolsPolicy)

-----------------------------------------------------------------------------
(* Calls of choose_tools.                                                  *)

\* The largest maxTools a caller asks for.
MaxBudget == 3

\* budget: maxTools missing or an int from zero on, minReadTools missing,
\* negative or one.
MaxToolsChoices == {Missing} \cup {PyInt(n) : n \in 0..MaxBudget}
MinReadToolsChoices == {Missing, PyInt(-1), PyInt(1)}

\* A dict of the items that are given; a key with no item given is left out.
OptionalDict(name, items) == IF items = <<>> THEN <<>> ELSE << <<K(name), PyDict(items)>> >>

\* policy: the categories, the flag and the forced names, each missing or
\* given; forceInclude names a tool of the pool, or a name outside it and
\* find twice; forceExclude names find and a tool that mutates.
ChooserPolicies ==
    {OptionalDict("policy",
                  SessionItem("includeCategories", include)
                      \o SessionItem("excludeCategories", exclude)
                      \o SessionItem("allowMutatingTools", allow)
                      \o SessionItem("forceInclude", force_include)
                      \o SessionItem("forceExclude", force_exclude)) :
        include \in {Missing, Categories(<<"format", "query">>)},
        exclude \in {Missing, Categories(<<"session">>)},
        allow \in {Missing, PyBool(TRUE), PyBool(FALSE)},
        force_include \in {Missing, PyList(<<PyStr(<<"apply_format">>)>>),
                           PyList(<<PyStr(<<"ghost">>), PyStr(<<"find">>),
                                    PyStr(<<"find">>)>>)},
        force_exclude \in {Missing,
                           PyList(<<PyStr(<<"find">>), PyStr(<<"apply_format">>)>>)}}

\* The inputs with a provider, a profile and a phase choose_tools accepts.
ChooserInputs ==
    {PyDict(<< <<K("provider"), PyStr(<<provider>>)>> >>
            \o SessionItem("profile", profile)
            \o OptionalDict("taskContext", SessionItem("phase", phase))
            \o OptionalDict("budget", SessionItem("maxTools", max_tools)
                                          \o SessionItem("minReadTools", min_read_tools))
            \o policy
            \o SessionItem("documentFeatures", features)) :
        provider \in {"openai", "generic"},
        profile \in {Missing, PyStr(<<"operation">>)},
        phase \in {Missing, PyStr(<<"locate">>), PyStr(<<"mutate">>), PyStr(<<"review">>)},
        max_tools \in MaxToolsChoices,
        min_read_tools \in MinReadToolsChoices,
        policy \in ChooserPolicies,
        features \in {Missing,
                      PyDict(<< <<K("hasComments"), PyBool(TRUE)>> >>)}}

\* The inputs choose_tools rejects: no provider, an unknown provider, an
\* unknown profile, an unknown phase.
ChooserBadInputs ==
    {PyDict(<<>>),
     PyDict(<< <<K("provider"), PyStr(<<"bogus">>)>> >>),
     PyDict(<< <<K("provider"), PyStr(<<"openai">>)>>, <<K("profile"), PyNone>> >>),
     PyDict(<< <<K("provider"), PyStr(<<"openai">>)>>,
               <<K("taskContext"), PyDict(<< <<K("phase"), PyStr(<<"write">>)>> >>)>> >>)}

InitChoose ==
    /\ EnvelopeIdle
    /\ VersionIdle
    /\ EncodeIdle
    /\ InvokeIdle
    /\ resolved = NotYet
    /\ rejected = NotYet
    /\ validated = NotYet
    /\ chooserInput \in ChooserInputs \cup ChooserBadInputs
    /\ chosen = NotYet
    /\ CacheIdle

\* A call of choose_tools.
Choose ==
    /\ chosen = NotYet
    /\ chosen' = ChooseTools(chooserInput)
    /\ UNCHANGED <<envVars, verVars, encVars, callVars, invVars, resolved, rejected,
                   validated, chooserInput, cacheVars>>

NextChoose == Choose

SpecChoose == InitChoose /\ [][NextChoose]_vars

-----------------------------------------------------------------------------
(* tools_api.py: the policy cache.  _load_policy is called by concurrent   *)
(* callers of choose_tools; each step below is one access to the global or *)
(* one call, and the callers interleave between the steps.                 *)

\* The concurrent callers of choose_tools.
MaxCallers == 3
Callers == 1..MaxCallers

\* _read_json_asset(name), given what the file parses to.
ReadJsonAsset(asset, name) ==
    IF asset = Missing
    THEN Raise(<<"Unable to load packaged tool artifact.">>, "TOOLS_ASSET_NOT_FOUND",
               PyDict(<< <<K("file"), PyStr(<<name>>)>> >>))
    ELSE IF ~IsDict(asset)
    THEN Raise(<<"Packaged tool artifact root must be an object.">>, "TOOLS_ASSET_INVALID",
               PyDict(<< <<K("file"), PyStr(<<name>>)>> >>))
    ELSE Return(asset)

\* A parse that marks the dict with the caller that read it.
ParsedPolicyPerCaller(caller, parsed) == DictSet(parsed, K("caller"), PyInt(caller))
\* The dict the read of a caller gives: json.loads builds a new dict for each
\* call, with the content of the file.
ParsedPolicy(caller, parsed) == parsed

InitCache ==
    /\ EnvelopeIdle
    /\ VersionIdle
    /\ EncodeIdle
    /\ InvokeIdle
    /\ resolved = NotYet
    /\ rejected = NotYet
    /\ validated = NotYet
    /\ chooserInput = PyNone
    /\ chosen = NotYet
    /\ policyAsset \in {ToolsPolicy, PyList(<<>>), Missing}
    /\ policyCache = PyNone
    /\ loaderPc = [c \in Callers |-> "call"]
    /\ loaded = [c \in Callers |-> PyNone]
    /\ obtained = [c \in Callers |-> NotYet]

\* Line 57: the test of the global.
LoadTest(c) ==
    /\ loaderPc[c] = "call"
    /\ loaderPc' = [loaderPc EXCEPT ![c] = IF policyCache # PyNone THEN "return" ELSE "read"]
    /\ UNCHANGED <<envVars, verVars, encVars, callVars, invVars, resolved, rejected,
                   validated, chooserInput, chosen, policyAsset, policyCache, loaded,
                   obtained>>

\* Line 59, the right-hand side: the call of _read_json_asset, which raises
\* out of _load_policy or leaves a dict to be stored.
LoadRead(c) ==
    /\ loaderPc[c] = "read"
    /\ IF ReadJsonAsset(policyAsset, "tools-policy.json").kind = "raise"
       THEN /\ obtained' = [obtained EXCEPT
                               ![c] = ReadJsonAsset(policyAsset, "tools-policy.json")]
            /\ loaderPc' = [loaderPc EXCEPT ![c] = "done"]
            /\ UNCHANGED loaded
       ELSE /\ loaded' = [loaded EXCEPT
                             ![c] = ParsedPolicy(c, ReadJsonAsset(policyAsset,
                                                                  "tools-policy.json").val)]
            /\ loaderPc' = [loaderPc EXCEPT ![c] = "store"]
            /\ UNCHANGED obtained
    /\ UNCHANGED <<envVars, verVars, encVars, callVars, invVars, resolved, rejected,
                   validated, chooserInput, chosen, policyAsset, policyCache>>

\* Line 59, the assignment to the global.
LoadStore(c) ==
    /\ loaderPc[c] = "store"
    /\ policyCache' = loaded[c]
    /\ loaderPc' = [loaderPc EXCEPT ![c] = "return"]
    /\ UNCHANGED <<envVars, verVars, encVars, callVars, invVars, resolved, rejected,
                   validated, chooserInput, chosen, policyAsset, loaded, obtained>>

\* Lines 58 and 60: return _policy_cache, a read of the global.
LoadReturn(c) ==
    /\ loaderPc[c] = "return"
    /\ obtained' = [obtained EXCEPT ![c] = Return(policyCache)]
    /\ loaderPc' = [loaderPc EXCEPT ![c] = "done"]
    /\ UNCHANGED <<envVars, verVars, encVars, callVars, invVars, resolved, rejected,
                   validated, chooserInput, chosen, policyAsset, policyCache, loaded>>

NextCache ==
    \E c \in Callers : LoadTest(c) \/ LoadRead(c) \/ LoadStore(c) \/ LoadReturn(c)

SpecCache == InitCache /\ [][NextCache]_vars

-----------------------------------------------------------------------------
(* Claims about the envelope decoder (SpecEnvelope). *)

\* What json.loads gives for the envelope lines, written out by hand.
EnvTrueValue == PyDict(<< <<K("ok"), PyBool(TRUE)>> >>)
EnvFalseValue ==
    PyDict(<< <<K("ok"), PyBool(FALSE)>>,
              <<K("error"), PyDict(<< <<K("code"), PyStr(<<"FILE_NOT_FOUND">>)>> >>)>> >>)
IndentedEnvValue == PyDict(<< <<K("ok"), PyBool(FALSE)>> >>)

EnvelopeLines == {EnvTrueLine, EnvFalseLine, IndentedEnvLine}

EnvelopeOf(line) ==
    CASE line = EnvTrueLine -> EnvTrueValue
      [] line = EnvFalseLine -> EnvFalseValue
      [] line = IndentedEnvLine -> IndentedEnvValue

\* The text is one envelope line, with nothing but blank lines around it.
IsEnvelopeText(text, line) ==
    \E before, after \in 0..1 :
        text = JoinLines([i \in 1..before |-> BlankLine] \o <<line>>
                            \o [i \in 1..after |-> BlankLine])

\* No candidate of the text parses to an object that has the key "ok".
NoAcceptableCandidate(text) ==
    LET candidates == ExtractEnvelopeCandidates(text)
    IN  \A i \in 1..Len(candidates) : ~Acceptable(candidates[i])

AllWhitespace(text) == \A i \in 1..Len(text) : text[i] \in WS

\* C1: when no stdout candidate is an object with the key "ok" and stderr is
\* a valid envelope, the decoder returns the envelope of stderr, its ok flag
\* and error code as printed, and does not raise.
C1_StderrFallback ==
    decoded # NotYet =>
        \A line \in EnvelopeLines :
            (NoAcceptableCandidate(stdout) /\ IsEnvelopeText(stderr, line))
                => decoded = Return(EnvelopeOf(line))

\* C1 witness: stdout is noise only, stderr is the failure envelope, and the
\* decoder has returned it with the error code FILE_NOT_FOUND.
C1_Witness ==
    /\ stdout = JoinLines(<<NoiseLine, NoiseLine>>)
    /\ stderr = EnvFalseLine
    /\ decoded.kind = "return"
    /\ DictGet(decoded.val, K("ok")) = PyBool(FALSE)
    /\ DictGet(DictGet(decoded.val, K("error")), K("code")) = PyStr(<<"FILE_NOT_FOUND">>)

\* C2: the decoder raises COMMAND_FAILED exactly when both streams are empty
\* after trimming, JSON_PARSE_ERROR exactly when a stream is not empty and
\* neither has an acceptable candidate, nothing else, and the details of
\* either error hold the two raw streams.
C2_DecoderFailures ==
    decoded # NotYet =>
        /\ (decoded.kind = "raise" /\ decoded.code = PyStr(<<"COMMAND_FAILED">>))
              <=> (AllWhitespace(stdout) /\ AllWhitespace(stderr))
        /\ (decoded.kind = "raise" /\ decoded.code = PyStr(<<"JSON_PARSE_ERROR">>))
              <=> /\ ~(AllWhitespace(stdout) /\ AllWhitespace(stderr))
                  /\ NoAcceptableCandidate(stdout)
                  /\ NoAcceptableCandidate(stderr)
        /\ decoded.kind = "raise" =>
              /\ decoded.code \in {PyStr(<<"COMMAND_FAILED">>),
                                  PyStr(<<"JSON_PARSE_ERROR">>)}
              /\ DictGet(decoded.val, K("stdout")) = PyStr(stdout)
              /\ DictGet(decoded.val, K("stderr")) = PyStr(stderr)

\* C2 witness: both streams hold text, padded with blank lines, that is no
\* envelope, and the decoder has raised JSON_PARSE_ERROR.
C2_Witness ==
    /\ stdout = JoinLines(<<OpenLine, BlankLine>>)
    /\ stderr = NoiseLine
    /\ decoded.kind = "raise"
    /\ decoded.code = PyStr(<<"JSON_PARSE_ERROR">>)

\* C2 witness of the other failure: blank streams, COMMAND_FAILED.
C2_WitnessEmpty ==
    /\ stdout = JoinLines(<<BlankLine, BlankLine>>)
    /\ stderr = <<>>
    /\ decoded.kind = "raise"
    /\ decoded.code = PyStr(<<"COMMAND_FAILED">>)

-----------------------------------------------------------------------------
(* Claims about the version gate (SpecVersion). *)

\* The version text without its pre-release tag: what precedes the first "-".
RefCore(v) ==
    SubSeq(v, 1, CHOOSE n \in 0..Len(v) :
                     /\ \A i \in 1..n : v[i] # "-"
                     /\ n = Len(v) \/ v[n + 1] = "-")

RefDots(v) == {i \in 1..Len(RefCore(v)) : RefCore(v)[i] = "."}

RefNumeric(c) == c # <<>> /\ \A i \in 1..Len(c) : c[i] \in Digits

\* The n-th dot of the core (the dots counted from 1), Len + 1 past the last.
RefDot(v, n) ==
    IF n > Cardinality(RefDots(v)) THEN Len(RefCore(v)) + 1
    ELSE CHOOSE i \in RefDots(v) : Cardinality({j \in RefDots(v) : j < i}) = n - 1

\* The n-th dot-separated component of the core, n at most the dots + 1.
RefComponent(v, n) ==
    SubSeq(RefCore(v), IF n = 1 THEN 1 ELSE RefDot(v, n - 1) + 1, RefDot(v, n) - 1)

\* Exactly three dot-separated non-negative integers, the tag dropped.
RefWellFormed(v) ==
    /\ Cardinality(RefDots(v)) = 2
    /\ \A n \in 1..3 : RefNumeric(RefComponent(v, n))

\* At least three components, the first three of them integers.
RefLeadingThree(v) ==
    /\ Cardinality(RefDots(v)) >= 2
    /\ \A n \in 1..3 : RefNumeric(RefComponent(v, n))

RefNumber(v, n) == DecimalValue(RefComponent(v, n))

\* Strictly less by major, then minor, then patch, as numbers.
RefOlder(a, b) ==
    \E n \in 1..3 :
        /\ RefNumber(a, n) < RefNumber(b, n)
        /\ \A m \in 1..(n - 1) : RefNumber(a, m) = RefNumber(b, m)

HasStringVersion(env) ==
    /\ IsDict(DictGet(env, K("meta")))
    /\ IsStr(DictGet(DictGet(env, K("meta")), K("version")))

ReportedVersion(env) == DictGet(DictGet(env, K("meta")), K("version"))

\* C3: with a minimum declared and both versions three integers, a reported
\* version other than 0.0.0 that is numerically older than the minimum raises
\* CLI_VERSION_UNSUPPORTED with both version strings, and a reported version
\* equal to or newer than the minimum never raises.
C3_GateRejectsOlder ==
    (gated # NotYet /\ IsStr(minVersion) /\ HasStringVersion(gateEnvelope)) =>
        LET cli == ReportedVersion(gateEnvelope)
        IN  (RefWellFormed(cli.v) /\ RefWellFormed(minVersion.v)) =>
                /\ (cli # SentinelVersion /\ RefOlder(cli.v, minVersion.v)) =>
                      /\ gated.kind = "raise"
                      /\ gated.code = PyStr(<<"CLI_VERSION_UNSUPPORTED">>)
                      /\ gated.val = PyDict(<< <<K("cliVersion"), cli>>,
                                               <<K("minVersion"), minVersion>> >>)
                /\ ~RefOlder(cli.v, minVersion.v) => gated.kind = "return"

\* C3 witness: 0.9.0 reported against the minimum 1.0.0 has been rejected.
C3_Witness ==
    /\ minVersion = PyStr(<<"1", ".", "0", ".", "0">>)
    /\ HasStringVersion(gateEnvelope)
    /\ ReportedVersion(gateEnvelope) = PyStr(<<"0", ".", "9", ".", "0">>)
    /\ gated.kind = "raise"
    /\ gated.code = PyStr(<<"CLI_VERSION_UNSUPPORTED">>)

\* C3, the other example: 1.10.0 reported against 1.9.0 has passed.
C3_WitnessNewer ==
    /\ minVersion = PyStr(<<"1", ".", "9", ".", "0">>)
    /\ HasStringVersion(gateEnvelope)
    /\ ReportedVersion(gateEnvelope) = PyStr(<<"1", ".", "1", "0", ".", "0">>)
    /\ gated = Return(PyNone)

\* C4 as stated: the gate does nothing when no minimum is declared, when there
\* is no string meta.version, when the reported version is 0.0.0, or when
\* either version is not exactly three dot-separated integers.
C4_AsStated ==
    gated # NotYet =>
        ((\/ ~IsStr(minVersion)
          \/ ~HasStringVersion(gateEnvelope)
          \/ ReportedVersion(gateEnvelope) = SentinelVersion
          \/ ~RefWellFormed(ReportedVersion(gateEnvelope).v)
          \/ ~RefWellFormed(minVersion.v))
            => gated = Return(PyNone))

\* C4 amended: the gate does nothing when no minimum is declared, when there
\* is no string meta.version, when the reported version is 0.0.0, or when
\* either version has fewer than three dot-separated components or a
\* component among its first three that is not an integer.
C4_GateDoesNothing ==
    gated # NotYet =>
        ((\/ ~IsStr(minVersion)
          \/ ~HasStringVersion(gateEnvelope)
          \/ ReportedVersion(gateEnvelope) = SentinelVersion
          \/ ~RefLeadingThree(ReportedVersion(gateEnvelope).v)
          \/ ~RefLeadingThree(minVersion.v))
            => gated = Return(PyNone))

\* C4 witness: the development build 0.0.0 has passed the minimum 1.0.0.
C4_Witness ==
    /\ minVersion = PyStr(<<"1", ".", "0", ".", "0">>)
    /\ HasStringVersion(gateEnvelope)
    /\ ReportedVersion(gateEnvelope) = SentinelVersion
    /\ gated = Return(PyNone)

-----------------------------------------------------------------------------
(* Claims about the argument encoder (SpecEncode). *)

\* The value the map gives for a param, None when it is null or missing.
Given(payload, spec) == DictGet(payload, K(spec.name))

\* The value has the type the param declares.
WellTyped(spec, value) ==
    CASE spec.kind = "doc" \/ spec.type = "string" -> IsStr(value)
      [] spec.type = "boolean" -> value.t = "bool"
      [] spec.type = "string[]" ->
            IsList(value) /\ \A k \in 1..Len(value.v) : IsStr(value.v[k])
      [] spec.type = "json" -> TRUE
      [] OTHER -> value.t = "int"

AllWellTyped(params, payload, upTo) ==
    \A i \in 1..upTo :
        Given(payload, params[i]) # PyNone => WellTyped(params[i], Given(payload, params[i]))

\* "--<flag>": the override when one is declared, the name otherwise.
RefFlag(spec) == IF spec.flag # <<>> THEN <<"--">> \o spec.flag ELSE <<"--", spec.name>>

\* The number of tokens a param with this value stands for.
RefCount(spec, value) ==
    IF value = PyNone THEN 0
    ELSE IF spec.kind = "doc" THEN 1
    ELSE IF spec.type = "string[]" /\ IsList(value) THEN 2 * Len(value.v)
    ELSE 2

\* The number of tokens of the params before the i-th.
RECURSIVE RefOffset(_, _, _)
RefOffset(params, payload, i) ==
    IF i <= 1 THEN 0
    ELSE RefOffset(params, payload, i - 1)
             + RefCount(params[i - 1], Given(payload, params[i - 1]))

\* The tokens seg are what the claim says a param with this value gives.
RefSegment(spec, value, seg) ==
    IF value = PyNone THEN seg = <<>>
    ELSE IF spec.kind = "doc" THEN seg = <<value.v>>
    ELSE IF spec.type = "boolean"
    THEN seg = <<RefFlag(spec), IF value.v THEN <<"true">> ELSE <<"false">> >>
    ELSE IF spec.type = "string[]"
    THEN /\ Len(seg) = 2 * Len(value.v)
         /\ \A k \in 1..Len(value.v) :
                seg[2 * k - 1] = RefFlag(spec) /\ seg[2 * k] = value.v[k].v
    ELSE IF spec.type = "json"
    THEN /\ Len(seg) = 2
         /\ seg[1] = RefFlag(spec)
         /\ JsonLoads(seg[2]).ok
         /\ JsonLoads(seg[2]).val = value
    ELSE IF IsStr(value) THEN seg = <<RefFlag(spec), value.v>>
    ELSE /\ Len(seg) = 2
         /\ seg[1] = RefFlag(spec)
         /\ RefNumeric(seg[2])
         /\ DecimalValue(seg[2]) = value.v

\* C5: with every present value well typed, the tokens emitted so far are, for
\* the params encoded so far in declaration order: nothing for an absent
\* value, the bare value for kind doc, the flag and "true" or "false" for a
\* boolean, the flag and an element for each element of a string[], the flag
\* and a JSON text of the value for json, the flag and the value otherwise.
C5_TokensPerParam ==
    (encNext >= 1 /\ encError = NotYet
        /\ AllWellTyped(encParams, encPayload, encNext - 1)) =>
        /\ Len(encArgs) = RefOffset(encParams, encPayload, encNext)
        /\ \A i \in 1..(encNext - 1) :
              RefSegment(encParams[i], Given(encPayload, encParams[i]),
                         SubSeq(encArgs, RefOffset(encParams, encPayload, i) + 1,
                                RefOffset(encParams, encPayload, i + 1)))

\* C5 witness: a boolean with an explicit false after an array with a flag
\* override, both encoded.
C5_Witness ==
    /\ encParams = <<IdsParam, ForceParam>>
    /\ encNext = 3
    /\ encError = NotYet
    /\ encArgs = << <<"--", "id">>, <<"a">>, <<"--", "id">>, <<"b">>,
                    <<"--", "force">>, <<"false">> >>

\* The param with this value makes the encoder fail, by the claim.
RefFails(spec, value) ==
    \/ value = PyNone /\ spec.required
    \/ value # PyNone /\ spec.kind # "doc" /\ spec.type = "string[]" /\ ~IsList(value)

\* C6: the encoder fails at a param exactly when its value is absent and it is
\* required, or it is a string[] given something that is no list, and then
\* with INVALID_ARGUMENT; an absent value of a param that is not required
\* adds no token and no error.
C6_EncoderErrors ==
    encNext > 1 =>
        LET spec == encParams[encNext - 1]
            value == Given(encPayload, spec)
        IN  /\ encError # NotYet <=> RefFails(spec, value)
            /\ encError # NotYet =>
                  /\ encError.kind = "raise"
                  /\ encError.code = PyStr(<<"INVALID_ARGUMENT">>)
            /\ encError = NotYet =>
                  Len(encArgs) = RefOffset(encParams, encPayload, encNext)
            /\ (value = PyNone /\ ~spec.required) =>
                  /\ encError = NotYet
                  /\ Len(encArgs) = RefOffset(encParams, encPayload, encNext - 1)

\* C6 witness: a string[] param given a string has failed.
C6_Witness ==
    /\ encNext > 1
    /\ encParams[encNext - 1] = IdsParam
    /\ Given(encPayload, IdsParam) = PyStr(<<"a">>)
    /\ encError.kind = "raise"
    /\ encError.code = PyStr(<<"INVALID_ARGUMENT">>)

\* C6 witness of the other failure: the required param is missing.
C6_WitnessRequired ==
    /\ encNext > 1
    /\ encParams[encNext - 1] = QueryParam
    /\ ~HasKey(encPayload, K("query"))
    /\ encError.kind = "raise"
    /\ encError.code = PyStr(<<"INVALID_ARGUMENT">>)

\* The encoding of the whole map is done, without error, and the map is valid.
EncodedValid ==
    /\ encNext = Len(encParams) + 1
    /\ encNext >= 1
    /\ encError = NotYet
    /\ AllWellTyped(encParams, encPayload, Len(encParams))

\* The valid maps for the same params that encode without error.
Rivals ==
    {other \in Payloads(encParams) :
        /\ AllWellTyped(encParams, other, Len(encParams))
        /\ EncodeParams(<<>>, encParams, other, 1).error = NotYet}

\* C7 as stated: two valid maps that differ in the value of a param, an
\* explicit false against an absent boolean and an empty array against an
\* absent array included, never encode to the same tokens.
C7_AsStated ==
    EncodedValid =>
        \A other \in Rivals :
            (\E i \in 1..Len(encParams) :
                 Given(other, encParams[i]) # Given(encPayload, encParams[i]))
                => EncodeParams(<<>>, encParams, other, 1).args # encArgs

\* An empty array counted as absent.
EmptyAsAbsent(value) == IF value = PyList(<<>>) THEN PyNone ELSE value

\* C7 amended: two valid maps that differ in the value of a param never
\* encode to the same tokens, an explicit false against an absent boolean
\* included, unless they differ only in an empty array against an absent one.
C7_LosslessButEmptyArray ==
    EncodedValid =>
        \A other \in Rivals :
            (\E i \in 1..Len(encParams) :
                 EmptyAsAbsent(Given(other, encParams[i]))
                     # EmptyAsAbsent(Given(encPayload, encParams[i])))
                => EncodeParams(<<>>, encParams, other, 1).args # encArgs

\* C7 witness: an explicit false and a doc that reads like a flag are encoded
\* and no other valid map gives these tokens.
C7_Witness ==
    /\ EncodedValid
    /\ encParams = <<DocParam, ForceParam>>
    /\ encArgs = << <<"--", "force">>, <<"--", "force">>, <<"false">> >>
    /\ \A other \in Rivals :
           EncodeParams(<<>>, encParams, other, 1).args = encArgs => other = encPayload

-----------------------------------------------------------------------------
(* Claims about invoke and the dispatch functions (Spec). *)

\* The call has reached the start of the process.
ReachedSpawn == pc \in {"spawn", "exited"} \/ spawns > 0

IsDocSpec(spec) == spec.kind = "doc"
IsFlagSpec(spec) == spec.kind # "doc"

\* The params with the doc params moved to the front.
DocFirst(params) == SelectSeq(params, IsDocSpec) \o SelectSeq(params, IsFlagSpec)

\* The interpreter and the script, or the executable alone.
RefHead ==
    IF cliBin[Len(cliBin)] \in {".js", ".JS"} THEN << <<"node">>, cliBin >>
    ELSE IF cliBin[Len(cliBin)] \in {".ts", ".TS"} THEN << <<"bun">>, cliBin >>
    ELSE <<cliBin>>

\* The tokens are "--timeout-ms" and the timeout in decimal, or nothing when
\* no timeout is given.
RefTimeout(tokens) ==
    IF timeoutMs = PyNone THEN tokens = <<>>
    ELSE /\ Len(tokens) = 2
         /\ tokens[1] = <<"--", "timeout-ms">>
         /\ RefNumeric(tokens[2])
         /\ DecimalValue(tokens[2]) = timeoutMs.v

\* The tokens are those of the params in the given order, for the payload
\* that is encoded.
RefBody(params, tokens) ==
    /\ Len(tokens) = RefOffset(params, callPayload, Len(params) + 1)
    /\ \A i \in 1..Len(params) :
          RefSegment(params[i], Given(callPayload, params[i]),
                     SubSeq(tokens, RefOffset(params, callPayload, i) + 1,
                            RefOffset(params, callPayload, i + 1)))

\* The argument vector is the head, the command tokens, the tokens of the
\* params in the given order, the timeout tokens and "--output json".
RefShape(params) ==
    LET operation == OPERATION_INDEX[callOperation.v]
        front == RefHead \o operation.commandTokens
        t == IF timeoutMs = PyNone THEN 0 ELSE 2
        n == Len(argv)
    IN  /\ n >= Len(front) + t + 2
        /\ SubSeq(argv, 1, Len(front)) = front
        /\ RefBody(params, SubSeq(argv, Len(front) + 1, n - t - 2))
        /\ RefTimeout(SubSeq(argv, n - t - 1, n - 2))
        /\ SubSeq(argv, n - 1, n) = << <<"--", "output">>, <<"json">> >>

LocalCheckFailed ==
    /\ outcome.kind = "raise"
    /\ outcome.exit_code = PyNone
    /\ outcome.code \in {PyStr(<<"INVALID_ARGUMENT">>), PyStr(<<"NOT_SUPPORTED">>),
                         PyStr(<<"TOOL_NOT_FOUND">>),
                         PyStr(<<"TOOL_DISPATCH_NOT_FOUND">>)}

\* invoke was given an operation identifier that the contract index lacks.
UnknownOperation == entry = "invoke" /\ callOperation.v \notin OperationIds

C9_WitnessFailedRun ==
    /\ pc = "done"
    /\ outcome.kind = "raise"
    /\ outcome.code = PyStr(<<"JSON_PARSE_ERROR">>)
    /\ spawns = 1

\* The data of the envelope of OkLine, written out by hand.
RefData == PyDict(<< <<K("applied"), PyBool(TRUE)>> >>)

\* C10: when the decoded envelope has ok = true and data and passes the
\* version gate, invoke returns its data unchanged, whatever the exit code
\* of the process; so for the envelope of version 1.2.0 against 1.0.0.
C10_OkEnvelopeReturnsData ==
    (pc = "done" /\ decoded.kind = "return") =>
        /\ (/\ DictGet(decoded.val, K("ok")) = PyBool(TRUE)
            /\ HasKey(decoded.val, K("data"))
            /\ gated.kind = "return")
               => outcome = Return(DictGet(decoded.val, K("data")))
        /\ (stdout = OkLine(<<"1", ".", "2", ".", "0">>)
               /\ minVersion = PyStr(<<"1", ".", "0", ".", "0">>))
               => outcome = Return(RefData)

\* C10 witness: the process printed the envelope of version 1.2.0 and exited
\* with 1, and the call has returned the data.
C10_Witness ==
    /\ pc = "done"
    /\ stdout = OkLine(<<"1", ".", "2", ".", "0">>)
    /\ returncode = PyInt(1)
    /\ outcome = Return(RefData)

\* The process printed a failure envelope with an error object: FailLine on
\* stderr after noise on stdout, or OldFailLine on stderr.
RefFailure == stdout = NoiseLine /\ stderr = FailLine
RefOldFailure == stdout = <<>> /\ stderr = OldFailLine

\* The error that carries what FailLine reports, written out by hand.
RefFailureError ==
    SuperDocError(PyStr(<<"No such file">>), PyStr(<<"FILE_NOT_FOUND">>),
                  PyDict(<< <<K("path"), PyStr(<<"a.docx">>)>> >>), returncode)

\* C11 as stated: when the process reports a failure envelope with an error
\* object, the error raised by invoke carries the code, message and details
\* of that envelope.
C11_AsStated ==
    pc = "done" =>
        /\ RefFailure => outcome = RefFailureError
        /\ RefOldFailure =>
              /\ outcome.kind = "raise"
              /\ outcome.code = PyStr(<<"FILE_NOT_FOUND">>)
              /\ outcome.message = PyStr(<<"No such file">>)

\* C11 amended: when the process reports a failure envelope with an error
\* object and the envelope passes the version gate, the error raised by
\* invoke carries the code, message and details of that envelope (message
\* defaulting to "Unknown CLI error" and code to COMMAND_FAILED when the
\* error object gives none) and the exit code of the process; when the gate
\* rejects the envelope, CLI_VERSION_UNSUPPORTED is raised in its place.
C11_FailurePreserved ==
    pc = "done" =>
        /\ RefFailure => outcome = RefFailureError
        /\ RefOldFailure =>
              /\ outcome.kind = "raise"
              /\ outcome.code = PyStr(<<"CLI_VERSION_UNSUPPORTED">>)
        /\ (/\ decoded.kind = "return"
            /\ gated.kind = "return"
            /\ ~Truthy(DictGet(decoded.val, K("ok")))
            /\ IsDict(DictGet(decoded.val, K("error"))))
              => LET error == DictGet(decoded.val, K("error"))
                 IN  /\ outcome.kind = "raise"
                     /\ outcome.exit_code = returncode
                     /\ outcome.val = DictGet(error, K("details"))
                     /\ outcome.code = IF HasKey(error, K("code"))
                                        THEN DictGet(error, K("code"))
                                        ELSE PyStr(<<"COMMAND_FAILED">>)
                     /\ outcome.message = IF HasKey(error, K("message"))
                                           THEN DictGet(error, K("message"))
                                           ELSE PyStr(<<"Unknown CLI error">>)

\* C11 witness: the failure envelope was on stderr behind noise on stdout
\* and the call has raised the error the envelope reports.
C11_Witness ==
    /\ pc = "done"
    /\ RefFailure
    /\ outcome = RefFailureError
    /\ outcome.exit_code = PyInt(1)

\* C11, the other case: the failure envelope of the old CLI was replaced by
\* the error of the version gate.
C11_WitnessOldCli ==
    /\ pc = "done"
    /\ RefOldFailure
    /\ outcome.code = PyStr(<<"CLI_VERSION_UNSUPPORTED">>)

\* C12 as stated: a call of invoke that has ended has returned a value or
\* raised a SuperDocError that carries a code; no other exception has left
\* the call.
C12_TypedErrorsOnly ==
    pc = "done" =>
        \/ outcome.kind = "return"
        \/ outcome.kind = "raise" /\ IsStr(outcome.code)

-----------------------------------------------------------------------------
(* Claims about the session resolver and the collaboration guard           *)
(* (SpecSession).                                                          *)

\* The operations of the contract that declare sessionId, doc.open and
\* doc.session.close left out, written out by hand.
RefSessionBound == {DocFormatApply, DocFind, DocCommentsAdd}

\* The call names a doc target; the explicit session id of the call, None
\* when it gives none or an empty one.
RefNamesDoc == DictGet(callParams, K("doc")) # PyNone
RefExplicitId ==
    IF DictGet(callParams, K("sessionId")) \in {PyStr(<<"s1">>), PyStr(<<"s2">>)}
    THEN DictGet(callParams, K("sessionId"))
    ELSE PyNone

\* The trimmed content of the marker, None when it is absent or blank,
\* written out by hand for each marker.
RefMarkerId ==
    CASE activeMarker = PyStr(<<"s2", "\n">>) -> PyStr(<<"s2">>)
      [] activeMarker = PyStr(<<" ", "s1", " ">>) -> PyStr(<<"s1">>)
      [] OTHER -> PyNone

\* The session a session-bound operation targets.
RefBoundTarget ==
    IF RefNamesDoc THEN PyNone
    ELSE IF RefExplicitId # PyNone THEN RefExplicitId
    ELSE RefMarkerId

\* C13: for a session-bound operation (doc.session.close apart) the resolved
\* session is none when the call names a doc, else the explicit non-empty
\* sessionId, else the trimmed marker or none when the marker is absent or
\* blank; the result is always none, the explicit id or the marker value; an
\* operation outside the session-bound set other than doc.session.close
\* resolves no session.
C13_SessionResolution ==
    resolved # NotYet =>
        /\ callOperation.v \in RefSessionBound => resolved = Return(RefBoundTarget)
        /\ callOperation.v \notin RefSessionBound \cup {DocSessionClose}
              => resolved = Return(PyNone)
        /\ resolved.kind = "return"
        /\ resolved.val \in {PyNone, RefExplicitId, RefMarkerId}

\* C13 witness: doc.find without doc and sessionId has resolved to s1, the
\* marker being s1 between spaces.
C13_Witness ==
    /\ callOperation = PyStr(DocFind)
    /\ callParams = PyDict(<<>>)
    /\ activeMarker = PyStr(<<" ", "s1", " ">>)
    /\ resolved = Return(PyStr(<<"s1">>))

\* C14: the target of doc.session.close is its explicit sessionId when that
\* is a non-empty string and none otherwise, whatever the marker holds;
\* without an explicit id the guard does not reject the call.
C14_CloseNeverAutoTargets ==
    callOperation = PyStr(DocSessionClose) =>
        /\ resolved # NotYet => resolved = Return(RefExplicitId)
        /\ (rejected # NotYet /\ RefExplicitId = PyNone) => rejected = Return(PyNone)

\* C14 witness: doc.session.close without an explicit id, the active
\* session being the collaboration session s2, has resolved to no session
\* and has passed the guard.
C14_Witness ==
    /\ callOperation = PyStr(DocSessionClose)
    /\ callParams = PyDict(<<>>)
    /\ activeMarker = PyStr(<<"s2", "\n">>)
    /\ sessionMetadata[<<"s2">>] = CollabMetadata
    /\ resolved = Return(PyNone)
    /\ rejected = Return(PyNone)

\* A collaboration field of the call is set.
RefCollabFieldSet ==
    \/ DictGet(callParams, K("collaboration")) # PyNone
    \/ DictGet(callParams, K("collabUrl")) # PyNone
    \/ DictGet(callParams, K("collabDocumentId")) # PyNone

\* C15: the guard rejects doc.open with NOT_SUPPORTED if and only if one of
\* collaboration, collabUrl, collabDocumentId is set, whatever the marker
\* and the metadata of the sessions.
C15_OpenRejectedOnCollabFields ==
    (callOperation = PyStr(DocOpen) /\ rejected # NotYet) =>
        IF RefCollabFieldSet
        THEN rejected.kind = "raise" /\ rejected.code = PyStr(<<"NOT_SUPPORTED">>)
        ELSE rejected = Return(PyNone)

\* C15 witness: doc.open for the collaboration session s1, with no
\* collaboration field, has passed the guard.
C15_Witness ==
    /\ callOperation = PyStr(DocOpen)
    /\ callParams = PyDict(<< <<K("sessionId"), PyStr(<<"s1">>)>> >>)
    /\ sessionMetadata[<<"s1">>] = CollabMetadata
    /\ rejected = Return(PyNone)

\* C15, the other case: doc.open with collabDocumentId has been rejected.
C15_WitnessRejected ==
    /\ callOperation = PyStr(DocOpen)
    /\ callParams = PyDict(<< <<K("collabDocumentId"), PyStr(<<"d1">>)>> >>)
    /\ rejected.kind = "raise"

\* The session an operation other than doc.open targets.
RefTargetId ==
    IF callOperation.v = DocSessionClose THEN RefExplicitId
    ELSE IF callOperation.v \in RefSessionBound THEN RefBoundTarget
    ELSE PyNone

\* C16: the guard rejects an operation other than doc.open with
\* NOT_SUPPORTED exactly when its target session resolves and the metadata
\* of that session has sessionType collab; with no session, no metadata or
\* another sessionType it raises nothing.
C16_CollabSessionRejected ==
    (callOperation # PyStr(DocOpen) /\ rejected # NotYet) =>
        IF RefTargetId # PyNone /\ sessionMetadata[RefTargetId.v] = CollabMetadata
        THEN /\ rejected.kind = "raise"
             /\ rejected.code = PyStr(<<"NOT_SUPPORTED">>)
             /\ DictGet(rejected.val, K("sessionId")) = RefTargetId
        ELSE rejected = Return(PyNone)

\* C16 witness: doc.find on the active collaboration session s2 has been
\* rejected.
C16_Witness ==
    /\ callOperation = PyStr(DocFind)
    /\ callParams = PyDict(<<>>)
    /\ activeMarker = PyStr(<<"s2", "\n">>)
    /\ rejected.kind = "raise"
    /\ rejected.code = PyStr(<<"NOT_SUPPORTED">>)

\* C16, the other case: doc.find on the session s1, whose metadata is a
\* JSON list, has passed the guard.
C16_WitnessNoObject ==
    /\ callOperation = PyStr(DocFind)
    /\ callParams = PyDict(<< <<K("sessionId"), PyStr(<<"s1">>)>> >>)
    /\ sessionMetadata[<<"s1">>] = PyStr(<<"[", "1", "]">>)
    /\ rejected = Return(PyNone)

-----------------------------------------------------------------------------
(* Claims about the dispatch validator (SpecValidate). *)

\* The names the operation of the call declares.
RefDeclaredNames ==
    IF callOperation.v \in OperationIds
    THEN {K(ParamsOf(callOperation.v)[i].name) : i \in 1..Len(ParamsOf(callOperation.v))}
    ELSE {}

RefUndeclaredKey == \E i \in 1..Len(callParams.v) : callParams.v[i][1] \notin RefDeclaredNames

RefInvalidArgument ==
    validated.kind = "raise" /\ validated.code = PyStr(<<"INVALID_ARGUMENT">>)

\* C17: a call whose operation identifier is not in the index, and a call
\* whose argument map has a key the operation does not declare, is rejected
\* with INVALID_ARGUMENT, whatever the rest of the map is.
C17_UnknownRejected ==
    (validated # NotYet /\ (callOperation.v \notin OperationIds \/ RefUndeclaredKey))
        => RefInvalidArgument

\* C17 witness: doc.comments.add with a map that passes validation without
\* its last key, the undeclared one, has been rejected.
C17_Witness ==
    /\ callOperation = PyStr(DocCommentsAdd)
    /\ callParams = PyDict(<< <<K("doc"), PyStr(<<"a.docx">>)>>,
                              <<K("blockIds"), PyList(<<PyStr(<<"b1">>)>>)>>,
                              <<K("text"), PyStr(<<"hi">>)>>,
                              UndeclaredItem >>)
    /\ RefInvalidArgument
    /\ DictGet(validated.val, K("param")) = PyStr(K("bogus"))

\* C17, the other case: an operation the index lacks has been rejected.
C17_WitnessUnknownOperation ==
    /\ callOperation = PyStr(DocMissing)
    /\ callParams = PyDict(<<>>)
    /\ RefInvalidArgument
    /\ validated.message = PyStr(<<"Unknown operation id.">>)

\* Present: a list when it is not empty, any other value when it is not
\* None.
RefPresent(name) ==
    /\ HasKey(callParams, K(name))
    /\ DictGet(callParams, K(name)) # PyNone
    /\ IsList(DictGet(callParams, K(name))) => DictGet(callParams, K(name)).v # <<>>

\* A required param of the operation of the call is not present.
RefRequiredAbsent ==
    /\ callOperation.v \in OperationIds
    /\ \E i \in 1..Len(ParamsOf(callOperation.v)) :
          /\ ParamsOf(callOperation.v)[i].required
          /\ ~RefPresent(ParamsOf(callOperation.v)[i].name)

\* C18: an argument map in which a required param is not present (missing,
\* None or an empty list) is rejected with INVALID_ARGUMENT.
C18_RequiredAbsentRejected ==
    (validated # NotYet /\ RefRequiredAbsent) => RefInvalidArgument

\* The groups the operation of the call declares under a key of its
\* constraints.
RefGroups(key) ==
    IF callOperation.v \in OperationIds
       /\ IsDict(OPERATION_INDEX[callOperation.v].constraints)
       /\ HasKey(OPERATION_INDEX[callOperation.v].constraints, K(key))
    THEN DictGet(OPERATION_INDEX[callOperation.v].constraints, K(key)).v
    ELSE <<>>

\* How many members of a group are present in the map of the call.
RefPresentCount(group) ==
    Cardinality({i \in 1..Len(group.v) : RefPresent(group.v[i].v[1])})

RefExclusiveBroken ==
    \E g \in 1..Len(RefGroups("mutuallyExclusive")) :
        RefPresentCount(RefGroups("mutuallyExclusive")[g]) > 1
RefOneOfBroken ==
    \E g \in 1..Len(RefGroups("requiresOneOf")) :
        RefPresentCount(RefGroups("requiresOneOf")[g]) = 0

\* C19: a call with more than one present member in a mutually exclusive
\* group, or with no present member in a requires-one-of group, is rejected
\* with INVALID_ARGUMENT; a call that passes has at most one present member
\* in each mutually exclusive group and at least one in each
\* requires-one-of group.
C19_GroupConstraints ==
    validated # NotYet =>
        /\ (RefExclusiveBroken \/ RefOneOfBroken) => RefInvalidArgument
        /\ validated.kind = "return" => ~RefExclusiveBroken /\ ~RefOneOfBroken

\* C19 witness: doc.comments.add with doc and sessionId, and nothing else
\* wrong, has been rejected for the group.
C19_Witness ==
    /\ callOperation = PyStr(DocCommentsAdd)
    /\ ~RefUndeclaredKey
    /\ ~RefRequiredAbsent
    /\ RefExclusiveBroken
    /\ ~RefOneOfBroken
    /\ RefInvalidArgument
    /\ HasKey(validated.val, K("group"))

\* C19, the second case: doc.comments.add with neither text nor mode has
\* been rejected for the group.
C19_WitnessOneOf ==
    /\ callOperation = PyStr(DocCommentsAdd)
    /\ ~RefUndeclaredKey
    /\ ~RefRequiredAbsent
    /\ ~RefExclusiveBroken
    /\ RefOneOfBroken
    /\ RefInvalidArgument
    /\ DictGet(validated.val, K("group")) = Group(<<"text", "mode">>)

\* C19, the third case: doc.comments.add has passed validation.
C19_WitnessPasses ==
    /\ callOperation = PyStr(DocCommentsAdd)
    /\ validated = Return(PyNone)

-----------------------------------------------------------------------------
(* Claims about the tool catalog selector (SpecChoose). *)

\* The budget of the input, and the profile it asks for.
RefBudget == DictGetOr(chooserInput, K("budget"), PyDict(<<>>))
RefProfile == DictGetOr(chooserInput, K("profile"), PyStr(<<"intent">>))

\* The maximum the call asks for, the default of the policy for the profile
\* (3 for intent, 2 for operation) when it asks for none, and the minimum of
\* read tools (default 2).
RefRequestedMax ==
    IF HasKey(RefBudget, K("maxTools")) THEN DictGet(RefBudget, K("maxTools")).v
    ELSE IF RefProfile = PyStr(<<"intent">>) THEN 3 ELSE 2
RefRequestedMinRead ==
    IF HasKey(RefBudget, K("minReadTools")) THEN DictGet(RefBudget, K("minReadTools")).v
    ELSE 2

\* The effective budgets: at least 1 and at least 0.
RefEffectiveMax == IF RefRequestedMax < 1 THEN 1 ELSE RefRequestedMax
RefEffectiveMinRead == IF RefRequestedMinRead < 0 THEN 0 ELSE RefRequestedMinRead

\* The parts of the result of the call.
RefSelected == DictGet(chosen.val, K("selected")).v
RefExcluded == DictGet(chosen.val, K("excluded")).v
RefMeta == DictGet(chosen.val, K("selectionMeta"))

\* C20: the selected list is never longer than the effective maximum (the
\* requested maxTools or the default of the policy, at least 1), and
\* selectionMeta gives the effective maxTools, the effective minReadTools
\* (at least 0) and a selectedCount that is the length of the selected list.
C20_SelectionBound ==
    chosen.kind = "return" =>
        /\ Len(RefSelected) <= RefEffectiveMax
        /\ DictGet(RefMeta, K("maxTools")) = PyInt(RefEffectiveMax)
        /\ DictGet(RefMeta, K("minReadTools")) = PyInt(RefEffectiveMinRead)
        /\ DictGet(RefMeta, K("selectedCount")) = PyInt(Len(RefSelected))

\* C20 witness: a call with maxTools 0 and minReadTools -1 has selected one
\* tool and trimmed another for the budget.
C20_Witness ==
    /\ chosen.kind = "return"
    /\ DictGet(RefBudget, K("maxTools")) = PyInt(0)
    /\ DictGet(RefBudget, K("minReadTools")) = PyInt(-1)
    /\ Len(RefSelected) = 1
    /\ \E i \in 1..Len(RefExcluded) :
          DictGet(RefExcluded[i], K("reason")) = PyStr(<<"budget-trim">>)

\* C20, the other case: a call without a budget has selected as many tools
\* as the default of the intent profile allows and trimmed another.
C20_WitnessDefault ==
    /\ chosen.kind = "return"
    /\ ~HasKey(chooserInput, K("budget"))
    /\ RefProfile = PyStr(<<"intent">>)
    /\ Len(RefSelected) = 3
    /\ \E i \in 1..Len(RefExcluded) :
          DictGet(RefExcluded[i], K("reason")) = PyStr(<<"budget-trim">>)

\* The phase and the policy of the input, the tools of its profile and the
\* priority list of its phase.
RefPhase ==
    DictGetOr(DictGetOr(chooserInput, K("taskContext"), PyDict(<<>>)), K("phase"),
              PyStr(<<"read">>))
RefPolicy == DictGetOr(chooserInput, K("policy"), PyDict(<<>>))
RefPool == IF RefProfile = PyStr(<<"intent">>) THEN IntentTools ELSE OperationTools
RefPriority ==
    CASE RefPhase = PyStr(<<"read">>) -> <<"session", "query">>
      [] RefPhase = PyStr(<<"mutate">>) -> <<"format", "comments", "query">>
      [] RefPhase = PyStr(<<"review">>) -> <<"comments">>
      [] OTHER -> <<>>

\* The candidates the selection starts from: the admitted tools without the
\* force-excluded ones, then the force-included ones, each name once.
RefAdmitted ==
    Admitted(RefPool,
             NormalizeFeatures(DictGet(chooserInput, K("documentFeatures"))),
             AllowMutatingTools(RefPolicy, RefPhase),
             IncludeCategories(RefPolicy, PhasePolicy(ToolsPolicy, RefPhase)),
             ExcludeCategories(RefPolicy, PhasePolicy(ToolsPolicy, RefPhase)))
RefCandidates ==
    Dedupe(ForceKept(RefAdmitted,
                     SetOf(OrElse(DictGet(RefPolicy, K("forceExclude")), PyList(<<>>))))
           \o ForceIncluded(RefPool,
                            OrElse(DictGet(RefPolicy, K("forceInclude")),
                                   PyList(<<>>)).v))

\* The names of the candidates of a foundational operation (doc.find and
\* doc.open), in the order of the candidates.
RefFoundationalNames ==
    LET at == SelectSeq([i \in 1..Len(RefCandidates) |-> i],
                        LAMBDA i : DictGet(RefCandidates[i], K("operationId"))
                                       \in {PyStr(DocFind), PyStr(DocOpen)})
    IN  [k \in 1..Len(at) |-> ToolName(RefCandidates[at[k]])]

\* How many foundational tools lead the selection.
RefLeading ==
    Min({RefEffectiveMinRead, RefEffectiveMax, Len(RefFoundationalNames)})

\* The rank of the category of a candidate in the priority list of the
\* phase, and the candidate of a name.
RefRankOf(tool) ==
    LET at == {i \in 1..Len(RefPriority) :
                  PyStr(<<RefPriority[i]>>) = DictGet(tool, K("category"))}
    IN  IF at = {} THEN 10000 ELSE Min(at) - 1
RefCandidate(name) ==
    RefCandidates[CHOOSE i \in 1..Len(RefCandidates) : ToolName(RefCandidates[i]) = name]

\* name comes before other in the order of (category rank, tool name).
RefOrdered(name, other) ==
    \/ RefRankOf(RefCandidate(name)) < RefRankOf(RefCandidate(other))
    \/ /\ RefRankOf(RefCandidate(name)) = RefRankOf(RefCandidate(other))
       /\ NameBefore(name, other)

\* The names selected, and the names trimmed for the budget, in their order.
RefSelectedNames == [i \in 1..Len(RefSelected) |-> DictGet(RefSelected[i], K("toolName")).v]
RefTrimmedNames ==
    LET at == SelectSeq([i \in 1..Len(RefExcluded) |-> i],
                        LAMBDA i : DictGet(RefExcluded[i], K("reason"))
                                       = PyStr(<<"budget-trim">>))
    IN  [k \in 1..Len(at) |-> DictGet(RefExcluded[at[k]], K("toolName")).v]

\* The selected names behind the leading ones, followed by the trimmed ones.
RefRanked ==
    SubSeq(RefSelectedNames, RefLeading + 1, Len(RefSelectedNames)) \o RefTrimmedNames

\* C21: the selection starts with the first min(minReadTools, maxTools,
\* number of foundational candidates) foundational candidates; behind them
\* come the other candidates in ascending order of (rank of the category in
\* the priority list of the phase, tool name) up to the cap, and every
\* candidate beyond the cap is in excluded as budget-trim, in the same order.
C21_SelectionOrder ==
    chosen.kind = "return" =>
        /\ Len(RefSelected) = Min({RefEffectiveMax, Len(RefCandidates)})
        /\ SubSeq(RefSelectedNames, 1, RefLeading)
               = SubSeq(RefFoundationalNames, 1, RefLeading)
        /\ Len(RefSelected) + Len(RefTrimmedNames) = Len(RefCandidates)
        /\ \A i \in 1..Len(RefCandidates) :
              \/ \E j \in 1..RefLeading :
                    RefSelectedNames[j] = ToolName(RefCandidates[i])
              \/ \E j \in 1..Len(RefRanked) : RefRanked[j] = ToolName(RefCandidates[i])
        /\ \A i, j \in 1..Len(RefRanked) : i < j => RefOrdered(RefRanked[i], RefRanked[j])

\* C21 witness: a call in the mutate phase with minReadTools 1 has selected
\* find first, a tool of a ranked category behind it, and trimmed others.
C21_Witness ==
    /\ chosen.kind = "return"
    /\ RefPhase = PyStr(<<"mutate">>)
    /\ RefLeading = 1
    /\ Len(RefSelected) >= 2
    /\ RefSelectedNames[1] = <<"find">>
    /\ RefSelectedNames[2] = <<"apply_format">>
    /\ Len(RefTrimmedNames) >= 2

\* The names of forceExclude and of forceInclude, and the names of the pool.
RefForceExclude ==
    {x.v : x \in SetOf(OrElse(DictGet(RefPolicy, K("forceExclude")), PyList(<<>>)))}
RefForceInclude ==
    {x.v : x \in SetOf(OrElse(DictGet(RefPolicy, K("forceInclude")), PyList(<<>>)))}
RefPoolNames == {DictGet(RefPool[i], K("toolName")).v : i \in 1..Len(RefPool)}
RefAdmittedNames == {ToolName(RefAdmitted[i]) : i \in 1..Len(RefAdmitted)}

\* excluded has an entry of the name with the reason.
RefRecorded(name, reason) ==
    \E i \in 1..Len(RefExcluded) : RefExcluded[i] = ExcludedEntry(name, reason)

\* The names that are candidates: selected or trimmed for the budget.
RefCandidateNames == RefSelectedNames \o RefTrimmedNames
RefIsCandidate(name) ==
    \E i \in 1..Len(RefCandidateNames) : RefCandidateNames[i] = name

\* What C22 says of the names of both lists, of the forceInclude names
\* outside the pool and of de-duplication.
RefForceIncludeRules ==
    /\ \A name \in (RefForceExclude \cap RefForceInclude) \cap RefPoolNames :
          RefIsCandidate(name)
    /\ \A name \in RefForceInclude \ RefPoolNames :
          /\ RefRecorded(name, "not-in-profile")
          /\ \A i \in 1..Len(RefSelectedNames) : RefSelectedNames[i] # name
    /\ \A i, j \in 1..Len(RefCandidateNames) :
          i # j => RefCandidateNames[i] # RefCandidateNames[j]

\* C22 as stated: every tool of the pool named in forceExclude and not in
\* forceInclude is never selected and is recorded as force-excluded.
C22_AsStated ==
    chosen.kind = "return" =>
        /\ \A name \in (RefForceExclude \ RefForceInclude) \cap RefPoolNames :
              /\ ~RefIsCandidate(name)
              /\ RefRecorded(name, "force-excluded")
        /\ RefForceIncludeRules

\* C22: a tool named in forceExclude and not in forceInclude is never
\* selected; it is recorded as force-excluded exactly when should_include
\* admitted it.  A tool of the pool named in both lists is a candidate, a
\* forceInclude name outside the pool is recorded as not-in-profile and
\* never selected, and no name is a candidate twice.
C22_ForceExcludeBeforeInclude ==
    chosen.kind = "return" =>
        /\ \A name \in (RefForceExclude \ RefForceInclude) \cap RefPoolNames :
              /\ ~RefIsCandidate(name)
              /\ RefRecorded(name, "force-excluded") <=> name \in RefAdmittedNames
        /\ RefForceIncludeRules

\* C22 witness: find is in both lists; it has been recorded as
\* force-excluded and selected, ghost as not-in-profile.
C22_Witness ==
    /\ chosen.kind = "return"
    /\ <<"find">> \in RefForceExclude \cap RefForceInclude
    /\ RefRecorded(<<"find">>, "force-excluded")
    /\ RefRecorded(<<"ghost">>, "not-in-profile")
    /\ \E i \in 1..Len(RefSelectedNames) : RefSelectedNames[i] = <<"find">>

\* C22, the other case: apply_format is in forceExclude only and was not
\* admitted; it is recorded as mutations-disabled and not as force-excluded.
C22_WitnessNotAdmitted ==
    /\ chosen.kind = "return"
    /\ <<"apply_format">> \in RefForceExclude \ RefForceInclude
    /\ RefRecorded(<<"apply_format">>, "mutations-disabled")
    /\ ~RefRecorded(<<"apply_format">>, "force-excluded")
    /\ ~RefIsCandidate(<<"apply_format">>)

\* The document features of the input that are set, and whether the call
\* allows tools that mutate.
RefFeatureSet(capability) ==
    /\ HasKey(chooserInput, K("documentFeatures"))
    /\ DictGet(DictGet(chooserInput, K("documentFeatures")), capability.v) = PyBool(TRUE)
RefMutationAllowed ==
    IF HasKey(RefPolicy, K("allowMutatingTools"))
    THEN DictGet(RefPolicy, K("allowMutatingTools")) = PyBool(TRUE)
    ELSE RefPhase = PyStr(<<"mutate">>)

\* The include set (of the caller if given, else of the phase) and the
\* exclude set (of the caller and of the phase), the sets of the phases
\* written out from the policy.
RefIncludeSet ==
    IF HasKey(RefPolicy, K("includeCategories"))
    THEN SetOf(DictGet(RefPolicy, K("includeCategories")))
    ELSE CASE RefPhase = PyStr(<<"read">>) -> {PyStr(<<"query">>), PyStr(<<"session">>)}
           [] RefPhase = PyStr(<<"review">>) ->
                  {PyStr(<<"comments">>), PyStr(<<"query">>), PyStr(<<"session">>)}
           [] OTHER -> {}
RefExcludeSet ==
    (IF HasKey(RefPolicy, K("excludeCategories"))
     THEN SetOf(DictGet(RefPolicy, K("excludeCategories"))) ELSE {})
    \cup (IF RefPhase = PyStr(<<"read">>) THEN {PyStr(<<"format">>)} ELSE {})

\* The reason of the first check a tool of the pool fails, "" when it
\* passes all four.
RefFirstFailure(tool) ==
    IF \E i \in 1..Len(DictGet(tool, K("requiredCapabilities")).v) :
          ~RefFeatureSet(DictGet(tool, K("requiredCapabilities")).v[i])
    THEN "missing-required-capability"
    ELSE IF DictGet(tool, K("mutates")) = PyBool(TRUE) /\ ~RefMutationAllowed
    THEN "mutations-disabled"
    ELSE IF RefIncludeSet # {} /\ DictGet(tool, K("category")) \notin RefIncludeSet
    THEN "category-not-included"
    ELSE IF DictGet(tool, K("category")) \in RefExcludeSet
    THEN "phase-category-excluded"
    ELSE ""

\* The entries of excluded with one of the four reasons of admission.
RefAdmissionReasons ==
    {PyStr(<<"missing-required-capability">>), PyStr(<<"mutations-disabled">>),
     PyStr(<<"category-not-included">>), PyStr(<<"phase-category-excluded">>)}
RefAdmissionEntries ==
    SelectSeq(RefExcluded, LAMBDA e : DictGet(e, K("reason")) \in RefAdmissionReasons)

\* The tools of the pool that fail a check, in the order of the pool.
RefFailing == SelectSeq(RefPool, LAMBDA tool : RefFirstFailure(tool) # "")

C23_WitnessNotIncluded ==
    /\ chosen.kind = "return"
    /\ \E i \in 1..Len(RefExcluded) :
          DictGet(RefExcluded[i], K("reason")) = PyStr(<<"category-not-included">>)
C23_WitnessCategoryExcluded ==
    /\ chosen.kind = "return"
    /\ \E i \in 1..Len(RefExcluded) :
          DictGet(RefExcluded[i], K("reason")) = PyStr(<<"phase-category-excluded">>)

-----------------------------------------------------------------------------
(* Claims about the ranking of the envelope decoder (SpecEnvelope). *)

\* A line starts with "{": as its first character, or as its first
\* character that is not white space.
RefStartsWithBrace(line, after_blanks) ==
    IF after_blanks THEN Strip(line) # <<>> /\ Head(Strip(line)) = "{"
    ELSE line # <<>> /\ Head(line) = "{"

\* The ranked candidates of a stream whose trimmed text has the given
\* lines: the whole trimmed text, then the text from each line that starts
\* with "{" to the end.
RefRankedOf(trimmed, lines, after_blanks) ==
    LET starts == SelectSeq([i \in 1..Len(lines) |-> i],
                            LAMBDA i : RefStartsWithBrace(lines[i], after_blanks))
    IN  IF trimmed = <<>> THEN <<>>
        ELSE <<trimmed>>
                 \o [k \in 1..Len(starts) |->
                        Strip(JoinLines(SubSeq(lines, starts[k], Len(lines))))]
RefRanking(text, after_blanks) ==
    RefRankedOf(Strip(text), SplitLines(Strip(text)), after_blanks)

\* The candidate parses to an object that has the key "ok".
RefAccepted(candidate) ==
    /\ JsonLoads(candidate).ok
    /\ IsDict(JsonLoads(candidate).val)
    /\ HasKey(JsonLoads(candidate).val, K("ok"))

\* The decoder has returned the first accepted candidate of the ranking,
\* and has raised when the ranking has none.
RefReturnsFirst(ranking) ==
    IF \E i \in 1..Len(ranking) : RefAccepted(ranking[i])
    THEN decoded = Return(JsonLoads(ranking[Min({i \in 1..Len(ranking) :
                                                   RefAccepted(ranking[i])})]).val)
    ELSE decoded.kind = "raise"

\* C24 as stated: the ranking takes the lines whose first character is "{".
C24_AsStated ==
    decoded # NotYet => RefReturnsFirst(RefRanking(stdout, FALSE) \o RefRanking(stderr, FALSE))

\* C24: the decoder returns the first acceptable candidate of the whole
\* trimmed stdout, then the text from each stdout line whose first
\* character that is not white space is "{" to the end, then the same for
\* stderr; a candidate that is no JSON, no object or has no key "ok" is
\* skipped.
C24_CandidateRanking ==
    decoded # NotYet => RefReturnsFirst(RefRanking(stdout, TRUE) \o RefRanking(stderr, TRUE))

\* C24 witness: the envelope of stdout, behind a noise line, has won over
\* the envelope of stderr.
C24_Witness ==
    /\ stdout = JoinLines(<<NoiseLine, EnvTrueLine>>)
    /\ stderr = EnvFalseLine
    /\ decoded = Return(EnvTrueValue)

\* C24, the other case: the envelope of stdout is indented and behind a
\* noise line, and it has won over the envelope of stderr.
C24_WitnessIndented ==
    /\ stdout = JoinLines(<<NoiseLine, IndentedEnvLine>>)
    /\ stderr = EnvTrueLine
    /\ decoded = Return(IndentedEnvValue)

\* C24, a candidate skipped: stdout is an object without "ok", and the
\* envelope of stderr has been returned.
C24_WitnessSkipped ==
    /\ stdout = NoOkLine
    /\ stderr = EnvFalseLine
    /\ decoded = Return(EnvFalseValue)

-----------------------------------------------------------------------------
(* Claims about the conditional-required rules (SpecValidate). *)

\* The requiredWhen rules of the operation of the call: doc.comments.add
\* asks for text when mode is "reply", for mode when doc is absent, and for
\* text when blockIds is present; no other operation has a rule.
RefRules ==
    IF callOperation = PyStr(DocCommentsAdd)
    THEN {[param |-> "text", trigger |-> "mode", cond |-> "equals"],
          [param |-> "mode", trigger |-> "doc", cond |-> "absent"],
          [param |-> "text", trigger |-> "blockIds", cond |-> "present"]}
    ELSE {}

\* The trigger condition of a rule holds in the map of the call.
RefTriggered(r) ==
    CASE r.cond = "equals" ->
            /\ HasKey(callParams, K(r.trigger))
            /\ DictGet(callParams, K(r.trigger)) = PyStr(<<"reply">>)
      [] r.cond = "present" -> RefPresent(r.trigger)
      [] r.cond = "absent" -> ~RefPresent(r.trigger)

\* The rule asks for a param the map of the call does not have.
RefRuleBroken(r) == RefTriggered(r) /\ ~RefPresent(r.param)

\* The rejection names the rule.
RefRejectedBy(r) ==
    /\ RefInvalidArgument
    /\ HasKey(validated.val, K("rule"))
    /\ DictGet(DictGet(validated.val, K("rule")), K("param")) = PyStr(K(r.param))
    /\ DictGet(DictGet(validated.val, K("rule")), K("whenParam")) = PyStr(K(r.trigger))

\* C25: a call in which the trigger condition of a requiredWhen rule holds
\* (the trigger param equals the value of the rule, or is present, or is
\* absent, as the rule says) and the dependent param is not present is
\* rejected with INVALID_ARGUMENT; a rejection for a rule is for a rule
\* whose trigger condition holds and whose dependent param is not present;
\* and a call that breaks no rule and nothing else passes.
C25_RequiredWhen ==
    validated # NotYet =>
        /\ (\E r \in RefRules : RefRuleBroken(r)) => RefInvalidArgument
        /\ (RefInvalidArgument /\ HasKey(validated.val, K("rule")))
              => \E r \in RefRules : RefRejectedBy(r) /\ RefRuleBroken(r)
        /\ ( /\ callOperation.v \in OperationIds
             /\ ~RefUndeclaredKey
             /\ ~RefRequiredAbsent
             /\ ~RefExclusiveBroken
             /\ ~RefOneOfBroken
             /\ \A r \in RefRules : ~RefRuleBroken(r) )
              => validated = Return(PyNone)

\* C25 witness: doc.comments.add with mode "reply" and no text has been
\* rejected for the rule with the exact value.
C25_Witness ==
    /\ callOperation = PyStr(DocCommentsAdd)
    /\ DictGet(callParams, K("mode")) = PyStr(<<"reply">>)
    /\ ~RefPresent("text")
    /\ RefRejectedBy([param |-> "text", trigger |-> "mode", cond |-> "equals"])
    /\ validated.message
          = PyStr(<<"Argument ", "text", " is required by constraints for ">>
                  \o DocCommentsAdd \o <<".">>)

\* C25, the absence rule: with a sessionId, no doc, a text and no mode the
\* call has been rejected for the rule on mode.
C25_WitnessAbsent ==
    /\ callOperation = PyStr(DocCommentsAdd)
    /\ ~RefPresent("doc")
    /\ RefPresent("text")
    /\ ~RefPresent("mode")
    /\ RefRejectedBy([param |-> "mode", trigger |-> "doc", cond |-> "absent"])

\* C25, the presence rule: with blockIds, no text and a mode other than
\* "reply" the call has been rejected for the rule on blockIds.
C25_WitnessPresent ==
    /\ callOperation = PyStr(DocCommentsAdd)
    /\ RefPresent("blockIds")
    /\ ~RefPresent("text")
    /\ DictGet(callParams, K("mode")) = PyStr(<<"new">>)
    /\ RefRejectedBy([param |-> "text", trigger |-> "blockIds", cond |-> "present"])

\* C25, no trigger: with a doc, a mode other than "reply", no text and an
\* empty blockIds no trigger condition holds and the call has passed.
C25_WitnessNoTrigger ==
    /\ callOperation = PyStr(DocCommentsAdd)
    /\ \A r \in RefRules : ~RefTriggered(r)
    /\ ~RefPresent("text")
    /\ validated = Return(PyNone)

-----------------------------------------------------------------------------
(* Claims about the policy cache (SpecCache). *)

\* The package has a tools-policy.json whose root is an object.
RefPolicyReadable == policyAsset \notin {Missing, PyList(<<>>)}

\* The callers that found the cache empty and read the file themselves.
RefReaders == {c \in Callers : loaded[c] # PyNone}

\* C26: with a readable policy file and the callers interleaved in any way,
\* every caller that has returned has got the content of the file and none
\* has raised; the cache is empty or holds that content, and holds it once a
\* caller has returned; and a populated cache keeps its content in every
\* step.
C26_CacheRace ==
    /\ [](RefPolicyReadable =>
            /\ \A c \in Callers :
                  /\ loaderPc[c] = "done" <=> obtained[c] # NotYet
                  /\ obtained[c] # NotYet => obtained[c] = Return(policyAsset)
                  /\ loaded[c] \in {PyNone, policyAsset}
            /\ policyCache \in {PyNone, policyAsset}
            /\ (\E c \in Callers : loaderPc[c] \in {"return", "done"})
                  => policyCache = policyAsset)
    /\ [][policyCache # PyNone => policyCache' = policyCache]_vars

\* C26 witness: every caller has returned, two of them after reading the file
\* themselves, so the cache was stored twice.
C26_Witness ==
    /\ RefPolicyReadable
    /\ Cardinality(RefReaders) >= 2
    /\ \A c \in Callers : loaderPc[c] = "done" /\ obtained[c] = Return(policyAsset)
    /\ policyCache = policyAsset

\* C26, the other case: a caller that found the cache populated has returned
\* while a reader has not stored yet.
C26_WitnessHit ==
    /\ RefPolicyReadable
    /\ \E c \in Callers \ RefReaders : obtained[c] = Return(policyAsset)
    /\ \E c \in RefReaders : loaderPc[c] = "store"

-----------------------------------------------------------------------------
(* Claims about the default change mode (SpecChangeMode). *)

\* The map of the caller, an empty map when the caller gives none.
RefCallerMap == IF callParams = PyNone THEN PyDict(<<>>) ELSE callParams

\* The change mode of the caller, None when the map has none.
RefCallerMode ==
    IF HasKey(RefCallerMap, K("changeMode")) THEN DictGet(RefCallerMap, K("changeMode"))
    ELSE PyNone

\* doc.format.apply is the operation that declares a changeMode param.
RefDeclaresChangeMode == callOperation = PyStr(DocFormatApply)

RefValidDefault ==
    requestedChangeMode \in {PyNone, PyStr(<<"direct">>), PyStr(<<"tracked">>)}

RefKeysOf(d) == {d.v[i][1] : i \in 1..Len(d.v)}

\* The two maps have the same keys and values apart from changeMode.
RefSameApartFromMode(a, b) ==
    \A k \in (RefKeysOf(a) \cup RefKeysOf(b)) \ {K("changeMode")} :
        HasKey(a, k) /\ HasKey(b, k) /\ DictGet(a, k) = DictGet(b, k)

C27_WitnessExplicit ==
    /\ pc = "spawn"
    /\ callOperation = PyStr(DocFormatApply)
    /\ defaultChangeMode = PyStr(<<"tracked">>)
    /\ RefCallerMode = PyStr(<<"direct">>)
    /\ DictGet(callPayload, K("changeMode")) = PyStr(<<"direct">>)

\* C27, a changeMode of None: the default takes its place.
C27_WitnessNone ==
    /\ pc = "spawn"
    /\ callOperation = PyStr(DocFormatApply)
    /\ defaultChangeMode = PyStr(<<"direct">>)
    /\ HasKey(callParams, K("changeMode"))
    /\ RefCallerMode = PyNone
    /\ DictGet(callPayload, K("changeMode")) = PyStr(<<"direct">>)

\* C27, an operation without the param: doc.find on a runtime built with
\* "tracked" is about to start without a changeMode.
C27_WitnessUndeclared ==
    /\ pc = "spawn"
    /\ callOperation = PyStr(DocFind)
    /\ defaultChangeMode = PyStr(<<"tracked">>)
    /\ ~HasKey(callPayload, K("changeMode"))

\* C27, the constructor: "suggest" has been rejected.
C27_WitnessRejected ==
    /\ requestedChangeMode = PyStr(<<"suggest">>)
    /\ pc = "done"
    /\ outcome.code = PyStr(<<"INVALID_ARGUMENT">>)
    /\ outcome.val = PyDict(<< <<K("defaultChangeMode"), PyStr(<<"suggest">>)>> >>)

-----------------------------------------------------------------------------
(* Claims about the names of the selection (SpecChoose). *)

\* The forceInclude list of the input, as given.
RefForceIncludeList == OrElse(DictGet(RefPolicy, K("forceInclude")), PyList(<<>>)).v

\* The names the foundational step selected: the leading names of selected.
RefLeadingNames == {RefSelectedNames[i] : i \in 1..RefLeading}

\* C28: the selected list has no tool name twice, whatever forceInclude and
\* the pool repeat, and a name selected in the foundational step is neither
\* selected again nor trimmed by the priority step.
C28_SelectedUnique ==
    chosen.kind = "return" =>
        /\ \A i, j \in 1..Len(RefSelectedNames) :
              RefSelectedNames[i] = RefSelectedNames[j] => i = j
        /\ \A i \in (RefLeading + 1)..Len(RefSelectedNames) :
              RefSelectedNames[i] \notin RefLeadingNames
        /\ \A i \in 1..Len(RefTrimmedNames) : RefTrimmedNames[i] \notin RefLeadingNames

\* C28 witness: in the operation profile, whose pool has find twice, with a
\* forceInclude that names find twice, find has been selected in the
\* foundational step and another tool after it.
C28_Witness ==
    /\ chosen.kind = "return"
    /\ RefProfile = PyStr(<<"operation">>)
    /\ Cardinality({i \in 1..Len(RefPool) :
                       DictGet(RefPool[i], K("toolName")) = PyStr(<<"find">>)}) = 2
    /\ Cardinality({i \in 1..Len(RefForceIncludeList) :
                       RefForceIncludeList[i] = PyStr(<<"find">>)}) = 2
    /\ RefLeading >= 1
    /\ RefSelectedNames[1] = <<"find">>
    /\ Len(RefSelectedNames) >= 2

-----------------------------------------------------------------------------
(* Claims about force-include and admission (SpecChoose). *)

\* The tools of the pool with the name that fail a check of admission.
RefFailedOfName(name) ==
    {i \in 1..Len(RefPool) :
        DictGet(RefPool[i], K("toolName")).v = name /\ RefFirstFailure(RefPool[i]) # ""}

RefIsSelected(name) == \E i \in 1..Len(RefSelectedNames) : RefSelectedNames[i] = name

\* C29: a tool named in forceInclude that is in the pool of the profile is a
\* candidate (selected, or trimmed for the budget alone), also when it
\* failed a check of admission, and its failed check stays recorded in
\* excluded, also when it is selected.
C29_ForceIncludeBypasses ==
    chosen.kind = "return" =>
        \A name \in RefForceInclude \cap RefPoolNames :
            /\ RefIsCandidate(name)
            /\ \A i \in RefFailedOfName(name) :
                  RefRecorded(name, RefFirstFailure(RefPool[i]))

\* C29 witness: with mutations disabled, the force-included apply_format is
\* in selected and in excluded as mutations-disabled.
C29_Witness ==
    /\ chosen.kind = "return"
    /\ <<"apply_format">> \in RefForceInclude
    /\ ~RefMutationAllowed
    /\ RefIsSelected(<<"apply_format">>)
    /\ \E i \in 1..Len(RefSelected) :
          /\ DictGet(RefSelected[i], K("toolName")) = PyStr(<<"apply_format">>)
          /\ DictGet(RefSelected[i], K("mutates")) = PyBool(TRUE)
    /\ RefRecorded(<<"apply_format">>, "mutations-disabled")

\* C29, the trimmed case: the force-included apply_format failed admission
\* and was trimmed for the budget, so excluded has it twice.
C29_WitnessTrimmed ==
    /\ chosen.kind = "return"
    /\ <<"apply_format">> \in RefForceInclude
    /\ ~RefIsSelected(<<"apply_format">>)
    /\ RefRecorded(<<"apply_format">>, "budget-trim")
    /\ RefRecorded(<<"apply_format">>, "mutations-disabled")

====
